---- MODULE Spec2Model ----
(***************************************************************************)
(* Mail Coloring: the effects composition engine (the refactored engine of *)
(* src/unnamed/part_000 and the legacy engine of src/effects.js), the      *)
(* decoration stripping of src/app.js and the model-ranked AI adapter of   *)
(* src/ai_service.js.                                                      *)
(*                                                                         *)
(* A text is a sequence of characters ([...text]); markup is the sequence  *)
(* of parts the engine pushes before join(''), and Serialize turns it into *)
(* the tag/character tokens of the joined string.                          *)
(***************************************************************************)
EXTENDS Integers, Sequences, FiniteSets, TLC

\* ------------------------------------------------------------------ bounds
MaxLen == 8              \* longest text of the color specification
MaxSizeLen == 8          \* most letters in a text of the size specification
MaxBaseSize == 100       \* largest base size of the size specification
MinBaseSize == 8         \* smallest base size of the size specification
MaxIntensity == 10       \* largest intensity of the size specification

\* The characters of the texts: a space, a letter, and the glyph the rainbow
\* decoration is made of (a text may contain it).
Alphabet == {" ", "a", "sparkles"}

\* ------------------------------------------------------------ JS values
\* A JS value that is a number or undefined.
Undefined == [def |-> FALSE, val |-> 0]
Num(n) == [def |-> TRUE, val |-> n]

\* v || d on a number-or-undefined v: undefined and 0 are falsy.
OrDefault(v, d) == IF v.def /\ v.val # 0 THEN v.val ELSE d

\* A computed font size: an integer, or NaN.
NaN == [nan |-> TRUE, px |-> 0]
Px(n) == [nan |-> FALSE, px |-> n]

Max(a, b) == IF a >= b THEN a ELSE b

\* Math.round(n / d) for d > 0: floor(n/d + 1/2).
MathRound(n, d) == (2 * n + d) \div (2 * d)

\* Math.sin(k * 0.5) * 10^6, rounded, for the indices the bounds reach.
SinScale == 1000000
SinTable == <<0, 479426, 841471, 997495, 909297, 598472, 141120, -350783,
              -756802, -977530, -958924, -705540, -279415, 215120, 656987,
              938000>>
MathSin(k) == SinTable[k + 1]

\* --------------------------------------------------------------- catalog
Null == "null"

EFFECT_CONFIGS ==
  [color |->
     [rainbow |-> [decoration |-> [before |-> <<"sparkles", " ">>,
                                   after  |-> <<" ", "sparkles">>],
                   colors |-> <<"#ff0000", "#ff7f00", "#ffff00", "#00ff00",
                                "#0099ff", "#6633ff", "#9400d3">>],
      flame   |-> [decoration |-> [before |-> <<"fire", " ">>,
                                   after  |-> <<" ", "fire">>],
                   colors |-> <<"#ffff00", "#ff7f00", "#ff4500", "#ff0000">>],
      flower  |-> [decoration |-> [before |-> <<"blossom", " ">>,
                                   after  |-> <<" ", "hibiscus">>],
                   colors |-> <<"#9400d3", "#ff69b4", "#ff1493", "#fa8072">>]],
   size |-> {"wave", "rise", "fall"}]

ColorKeys == DOMAIN EFFECT_CONFIGS.color
SizeKeys == EFFECT_CONFIGS.size

\* The legacy catalog carries the same data (effects.js 11-86).
EFFECTS == EFFECT_CONFIGS

\* ----------------------------------------------------------------- markup
\* One pushed part: a span (with the decoration marker, or with a style) or
\* bare text.
\* Mutant of DecorationSpan: the decoration span without its marker.
UnmarkedDecorationSpan(glyphs) ==
  [kind |-> "span", marker |-> FALSE, color |-> Null, hasSize |-> FALSE,
   size |-> [nan |-> FALSE, px |-> 0], content |-> glyphs]

DecorationSpan(glyphs) ==
  [kind |-> "span", marker |-> TRUE, color |-> Null, hasSize |-> FALSE,
   size |-> Px(0), content |-> glyphs]
StyledSpan(color, hasSize, size, char) ==
  [kind |-> "span", marker |-> FALSE, color |-> color, hasSize |-> hasSize,
   size |-> size, content |-> <<char>>]
BareText(chars) ==
  [kind |-> "text", marker |-> FALSE, color |-> Null, hasSize |-> FALSE,
   size |-> Px(0), content |-> chars]

\* Mutant of IsSpace: no character is taken for a space.
IsSpaceNever(char) == FALSE

\* char === ' '
IsSpace(char) == char = " "

\* chars.filter(c => c !== ' ').length
RECURSIVE NonSpaceCount(_)
NonSpaceCount(chars) ==
  IF chars = <<>> THEN 0
  ELSE (IF IsSpace(Head(chars)) THEN 0 ELSE 1) + NonSpaceCount(Tail(chars))

\* ------------------------------------------- refactored engine (part_000)
\* An offset is a rational num/den, or NaN when an operand was undefined.
OffsetNaN == [nan |-> TRUE, num |-> 0, den |-> 1]
Offset(n, d) == [nan |-> FALSE, num |-> n, den |-> d]

\* EFFECT_CONFIGS.size.wave.getOffset
waveGetOffset(index, total, opts) ==
  IF ~opts.intensity.def THEN OffsetNaN
  ELSE LET amplitude == 2 + (opts.intensity.val - 1) * 2
       IN  Offset(MathSin(index) * amplitude, SinScale)

\* Mutant of riseGetOffset: the offset grows downwards.
riseGetOffsetFalling(index, total, opts) ==
  IF ~opts.intensity.def \/ ~opts.baseSize.def THEN OffsetNaN
  ELSE Offset(0 - index * (opts.intensity.val * 4), Max(1, total - 1))

\* EFFECT_CONFIGS.size.rise.getOffset
riseGetOffset(index, total, opts) ==
  IF ~opts.intensity.def \/ ~opts.baseSize.def THEN OffsetNaN
  ELSE LET den == Max(1, total - 1)
           maxSize == opts.baseSize.val + (opts.intensity.val * 4)
       IN  Offset(index * (maxSize - opts.baseSize.val), den)

\* Mutant of fallGetOffset: the target size is returned, not its difference
\* from baseSize.
fallGetOffsetTarget(index, total, opts) ==
  IF ~opts.intensity.def \/ ~opts.baseSize.def THEN OffsetNaN
  ELSE LET den == Max(1, total - 1)
           maxSize == opts.baseSize.val + (opts.intensity.val * 4)
           minSize == Max(8, opts.baseSize.val - opts.intensity.val)
       IN  Offset(maxSize * den - index * (maxSize - minSize), den)

\* EFFECT_CONFIGS.size.fall.getOffset
fallGetOffset(index, total, opts) ==
  IF ~opts.intensity.def \/ ~opts.baseSize.def THEN OffsetNaN
  ELSE LET den == Max(1, total - 1)
           maxSize == opts.baseSize.val + (opts.intensity.val * 4)
           minSize == Max(8, opts.baseSize.val - opts.intensity.val)
           \* targetSize = maxSize - progress * (maxSize - minSize)
           targetNum == maxSize * den - index * (maxSize - minSize)
       IN  Offset(targetNum - opts.baseSize.val * den, den)

getOffset(effect, index, total, opts) ==
  CASE effect = "wave" -> waveGetOffset(index, total, opts)
    [] effect = "rise" -> riseGetOffset(index, total, opts)
    [] effect = "fall" -> fallGetOffset(index, total, opts)

\* { ...options, baseSize }: the caller's intensity, the defaulted baseSize.
OffsetOptions(options) ==
  [intensity |-> options.intensity,
   baseSize |-> Num(OrDefault(options.baseSize, 16))]

\* Mutant of SizeOf: the floor of 8 is missing.
SizeOfUnfloored(baseSize, offset) ==
  IF offset.nan THEN NaN
  ELSE Px(MathRound(baseSize * offset.den + offset.num, offset.den))

\* Math.max(8, Math.round(baseSize + offset))
SizeOf(baseSize, offset) ==
  IF offset.nan THEN NaN
  ELSE Px(Max(8, MathRound(baseSize * offset.den + offset.num, offset.den)))

\* The chars.forEach of combineEffects, from position i with charIndex
\* non-space characters already emitted.
RECURSIVE forEachChar(_, _, _, _, _, _)
forEachChar(chars, i, charIndex, totalChars, activeEffects, options) ==
  IF i > Len(chars) THEN <<>>
  ELSE
    LET char == chars[i]
        colorConfig == IF activeEffects.color # Null
                       THEN EFFECT_CONFIGS.color[activeEffects.color]
                       ELSE Null
        hasColor == activeEffects.color # Null
        hasSize == activeEffects.size # Null
        color == IF hasColor
                 THEN colorConfig.colors[(charIndex % Len(colorConfig.colors)) + 1]
                 ELSE Null
        baseSize == OrDefault(options.baseSize, 16)
        size == IF hasSize
                THEN SizeOf(baseSize,
                            getOffset(activeEffects.size, charIndex, totalChars,
                                      OffsetOptions(options)))
                ELSE Px(0)
    IN  IF IsSpace(char)
        THEN <<BareText(<<" ">>)>>
             \o forEachChar(chars, i + 1, charIndex, totalChars,
                            activeEffects, options)
        ELSE <<IF hasColor \/ hasSize
               THEN StyledSpan(color, hasSize, size, char)
               ELSE BareText(<<char>>)>>
             \o forEachChar(chars, i + 1, charIndex + 1, totalChars,
                            activeEffects, options)

\* combineEffects of src/unnamed/part_000: the parts pushed to htmlParts.
combineEffects(text, activeEffects, options) ==
  LET hasColor == activeEffects.color # Null
      decoration == EFFECT_CONFIGS.color[activeEffects.color].decoration
      prefix == IF hasColor /\ decoration.before # <<>>
                THEN <<DecorationSpan(decoration.before)>> ELSE <<>>
      suffix == IF hasColor /\ decoration.after # <<>>
                THEN <<DecorationSpan(decoration.after)>> ELSE <<>>
  IN  prefix
      \o forEachChar(text, 1, 0, NonSpaceCount(text), activeEffects, options)
      \o suffix

\* --------------------------------------------- legacy engine (effects.js)
\* The size of one character in the legacy combineEffects (effects.js
\* 234-245), with the defaulted intensity and baseSize.
legacySize(effect, charIdx, nonSpaceCount, intensity, baseSize) ==
  LET amplitude == 2 + (intensity - 1) * 2
      maxSize == baseSize + (intensity * 4)
      minSize == Max(8, baseSize - intensity)
      den == Max(1, nonSpaceCount - 1)
  IN  CASE effect = "wave" ->
             Px(Max(8, MathRound(baseSize * SinScale
                                 + MathSin(charIdx) * amplitude, SinScale)))
        [] effect = "rise" ->
             Px(MathRound(baseSize * den + charIdx * (maxSize - baseSize), den))
        [] effect = "fall" ->
             Px(MathRound(maxSize * den - charIdx * (maxSize - minSize), den))
        [] OTHER -> Px(baseSize)

\* The two chars.forEach of the legacy combineEffects, fused: sizeValues[i]
\* is computed with charIdx, the color with colorIndex, and both count the
\* non-space characters before position i.
RECURSIVE legacyForEachChar(_, _, _, _, _, _)
legacyForEachChar(chars, i, colorIndex, nonSpaceCount, selectedEffects, options) ==
  IF i > Len(chars) THEN <<>>
  ELSE
    LET char == chars[i]
        intensity == OrDefault(options.intensity, 5)
        baseSize == OrDefault(options.baseSize, 16)
        hasColor == selectedEffects.color # Null
        hasSize == selectedEffects.size # Null
        colors == EFFECTS.color[selectedEffects.color].colors
        color == IF hasColor THEN colors[(colorIndex % Len(colors)) + 1]
                 ELSE Null
        size == IF hasSize
                THEN legacySize(selectedEffects.size, colorIndex, nonSpaceCount,
                                intensity, baseSize)
                ELSE Px(0)
    IN  IF IsSpace(char)
        THEN <<BareText(<<" ">>)>>
             \o legacyForEachChar(chars, i + 1, colorIndex, nonSpaceCount,
                                  selectedEffects, options)
        ELSE <<IF hasColor \/ hasSize
               THEN StyledSpan(color, hasSize, size, char)
               ELSE BareText(<<char>>)>>
             \o legacyForEachChar(chars, i + 1, colorIndex + 1, nonSpaceCount,
                                  selectedEffects, options)

\* combineEffects of src/effects.js: htmlParts starts as [prefix] and ends
\* with suffix, each the empty string when there is no decoration.
legacyCombineEffects(text, selectedEffects, options) ==
  LET hasColor == selectedEffects.color # Null
      decoration == EFFECTS.color[selectedEffects.color].decoration
      prefix == IF hasColor /\ decoration.before # <<>>
                THEN DecorationSpan(decoration.before) ELSE BareText(<<>>)
      suffix == IF hasColor /\ decoration.after # <<>>
                THEN DecorationSpan(decoration.after) ELSE BareText(<<>>)
  IN  <<prefix>>
      \o legacyForEachChar(text, 1, 0, NonSpaceCount(text), selectedEffects,
                           options)
      \o <<suffix>>

\* EFFECTS.color[key].apply of src/effects.js (the three bodies are the
\* same): the color index is the raw position i, the decoration is plain
\* text.
RECURSIVE colorApplyLoop(_, _, _)
colorApplyLoop(chars, i, colors) ==
  IF i > Len(chars) THEN <<>>
  ELSE (IF IsSpace(chars[i])
        THEN <<BareText(<<" ">>)>>
        ELSE <<StyledSpan(colors[((i - 1) % Len(colors)) + 1], FALSE, Px(0),
                          chars[i])>>)
       \o colorApplyLoop(chars, i + 1, colors)

colorApply(key, text) ==
  <<BareText(EFFECTS.color[key].decoration.before)>>
  \o colorApplyLoop(text, 1, EFFECTS.color[key].colors)
  \o <<BareText(EFFECTS.color[key].decoration.after)>>

\* EFFECTS.size[key].apply of src/effects.js: wave indexes the sine by the
\* raw position i and floors at 8; rise and fall use charIndex, unfloored.
RECURSIVE sizeApplyLoop(_, _, _, _, _, _, _)
sizeApplyLoop(key, chars, i, charIndex, nonSpaceCount, intensity, baseSize) ==
  IF i > Len(chars) THEN <<>>
  ELSE
    LET amplitude == 2 + (intensity - 1) * 2
        maxSize == baseSize + (intensity * 4)
        minSize == Max(8, baseSize - intensity)
        den == Max(1, nonSpaceCount - 1)
        size ==
          CASE key = "wave" ->
                 Max(8, MathRound(baseSize * SinScale
                                  + MathSin(i - 1) * amplitude, SinScale))
            [] key = "rise" ->
                 MathRound(baseSize * den + charIndex * (maxSize - baseSize), den)
            [] key = "fall" ->
                 MathRound(maxSize * den - charIndex * (maxSize - minSize), den)
    IN  IF IsSpace(chars[i])
        THEN <<BareText(<<" ">>)>>
             \o sizeApplyLoop(key, chars, i + 1, charIndex, nonSpaceCount,
                              intensity, baseSize)
        ELSE <<StyledSpan(Null, TRUE, Px(size), chars[i])>>
             \o sizeApplyLoop(key, chars, i + 1, charIndex + 1, nonSpaceCount,
                              intensity, baseSize)

sizeApply(key, text, options) ==
  sizeApplyLoop(key, text, 1, 0, NonSpaceCount(text),
                OrDefault(options.intensity, 5), OrDefault(options.baseSize, 16))

\* ------------------------------------------------ joined markup and DOM
\* htmlParts.join(''): the tag and character tokens of the markup string.
\* An empty part contributes nothing.
OpenTag(part) ==
  [t |-> "open", marker |-> part.marker, color |-> part.color,
   hasSize |-> part.hasSize, size |-> part.size, c |-> ""]
CloseTag ==
  [t |-> "close", marker |-> FALSE, color |-> Null, hasSize |-> FALSE,
   size |-> Px(0), c |-> ""]
CharToken(ch) ==
  [t |-> "char", marker |-> FALSE, color |-> Null, hasSize |-> FALSE,
   size |-> Px(0), c |-> ch]

CharTokens(chars) == [k \in 1..Len(chars) |-> CharToken(chars[k])]

RECURSIVE Serialize(_)
Serialize(parts) ==
  IF parts = <<>> THEN <<>>
  ELSE LET p == Head(parts)
       IN  (IF p.kind = "span"
            THEN <<OpenTag(p)>> \o CharTokens(p.content) \o <<CloseTag>>
            ELSE CharTokens(p.content))
           \o Serialize(Tail(parts))

\* getCleanSelectedText of src/app.js on the parsed markup: every element
\* carrying data-decoration="true" is removed with its content, and
\* textContent concatenates the characters that remain. stack holds the
\* markers of the open elements.
RECURSIVE cleanTextContent(_, _)
cleanTextContent(tokens, stack) ==
  IF tokens = <<>> THEN <<>>
  ELSE LET tok == Head(tokens)
           removed == \E k \in 1..Len(stack) : stack[k]
       IN  CASE tok.t = "open" ->
                  cleanTextContent(Tail(tokens), <<tok.marker>> \o stack)
             [] tok.t = "close" ->
                  cleanTextContent(Tail(tokens),
                                   IF stack = <<>> THEN stack ELSE Tail(stack))
             [] OTHER ->
                  (IF removed THEN <<>> ELSE <<tok.c>>)
                  \o cleanTextContent(Tail(tokens), stack)

getCleanSelectedText(parts) == cleanTextContent(Serialize(parts), <<>>)

\* ------------------------------------------------ AI adapter (ai_service.js)
\* A model response is a sequence of tokens: brackets, commas, JSON string
\* literals (v holds the characters), bare words (prose outside an array, a
\* non-string JSON value such as null or 42 inside one) and emoji.
LB == [k |-> "lb", v |-> <<>>]
RB == [k |-> "rb", v |-> <<>>]
COMMA == [k |-> "comma", v |-> <<>>]
WORD == [k |-> "word", v |-> <<>>]
EMOJI == [k |-> "emoji", v |-> <<>>]
Str(chars) == [k |-> "str", v |-> chars]

\* The first position >= from of a token of the kind, 0 when there is none.
RECURSIVE IndexOfKind(_, _, _)
IndexOfKind(tokens, kind, from) ==
  IF from > Len(tokens) THEN 0
  ELSE IF tokens[from].k = kind THEN from
  ELSE IndexOfKind(tokens, kind, from + 1)

\* response.match(/\[[\s\S]*?\]/): from the first "[" to the first "]" after
\* it; <<>> when there is no match.
jsonMatch(response) ==
  LET open == IndexOfKind(response, "lb", 1)
      close == IF open = 0 THEN 0 ELSE IndexOfKind(response, "rb", open + 1)
  IN  IF open = 0 \/ close = 0 THEN <<>> ELSE SubSeq(response, open, close)

\* The elements of a JSON array body: values separated by commas.
RECURSIVE ParseElements(_)
ParseElements(tokens) ==
  IF tokens = <<>> THEN [ok |-> FALSE, values |-> <<>>]
  ELSE IF Head(tokens).k \notin {"str", "word"}
       THEN [ok |-> FALSE, values |-> <<>>]
  ELSE IF Len(tokens) = 1 THEN [ok |-> TRUE, values |-> <<Head(tokens)>>]
  ELSE IF tokens[2].k # "comma" THEN [ok |-> FALSE, values |-> <<>>]
  ELSE LET rest == ParseElements(SubSeq(tokens, 3, Len(tokens)))
       IN  [ok |-> rest.ok, values |-> <<Head(tokens)>> \o rest.values]

\* JSON.parse of a matched "[ ... ]": ok is FALSE when it throws.
JSONParse(match) ==
  LET body == SubSeq(match, 2, Len(match) - 1)
  IN  IF body = <<>> THEN [ok |-> TRUE, values |-> <<>>]
      ELSE ParseElements(body)

\* Mutant of Includes: the comparison ignores the case of the letter "a".
IncludesIgnoringCase(text, word) ==
  LET lower(c) == IF c = "A" THEN "a" ELSE c
      low(q) == [k \in 1..Len(q) |-> lower(q[k])]
  IN  \E off \in 0..(Len(text) - Len(word)) :
        low(SubSeq(text, off + 1, off + Len(word))) = low(word)

\* originalText.includes(word): word occurs in text as a substring.
Includes(text, word) ==
  \E off \in 0..(Len(text) - Len(word)) :
    SubSeq(text, off + 1, off + Len(word)) = word

\* words.filter(word => typeof word === 'string' && originalText.includes(word))
RECURSIVE filterWords(_, _)
filterWords(values, originalText) ==
  IF values = <<>> THEN <<>>
  ELSE (IF Head(values).k = "str" /\ Includes(originalText, Head(values).v)
        THEN <<Head(values).v>> ELSE <<>>)
       \o filterWords(Tail(values), originalText)

\* parseWordsFromResponse(response, originalText)
parseWordsFromResponse(response, originalText) ==
  LET match == jsonMatch(response)
      parsed == JSONParse(match)
  IN  IF match = <<>> THEN <<>>
      ELSE IF ~parsed.ok THEN <<>>
      ELSE filterWords(parsed.values, originalText)

\* extractEmoji(text): the first emoji of the response, or none.
extractEmoji(response) ==
  IF IndexOfKind(response, "emoji", 1) = 0 THEN <<>> ELSE <<EMOJI>>

\* What the transport does with one generateContent request: a 2xx response
\* with the text of the first candidate, a non-2xx response with a status
\* and possibly an error message, or a rejected fetch.
OkResponse(body) ==
  [kind |-> "ok", status |-> "200", serverMessage |-> "", body |-> body]
HttpError(status, serverMessage) ==
  [kind |-> "http", status |-> status, serverMessage |-> serverMessage,
   body |-> <<>>]
NetworkFailure ==
  [kind |-> "network", status |-> "", serverMessage |-> "", body |-> <<>>]

\* An Error: message is the sequence of the pieces of its text.
NoError == [isError |-> FALSE, message |-> <<>>]
Error(message) == [isError |-> TRUE, message |-> message]

\* callGeminiAPI(model, prompt, apiKey) on an outcome of the transport: the
\* text it returns, or the error it throws.
callGeminiAPI(outcome) ==
  CASE outcome.kind = "ok" ->
         [threw |-> FALSE, error |-> NoError, text |-> outcome.body]
    [] outcome.kind = "http" ->
         [threw |-> TRUE,
          error |-> Error(<<"API error ", outcome.status, ": ",
                            IF outcome.serverMessage # ""
                            THEN outcome.serverMessage ELSE "Unknown">>),
          text |-> <<>>]
    [] outcome.kind = "network" ->
         [threw |-> TRUE, error |-> Error(<<"Failed to fetch">>),
          text |-> <<>>]

\* Mutant of isQuotaError: every error is retried.
isQuotaErrorAlways(error) == TRUE

\* Mutant of isQuotaError: only a message that names the quota is retried.
isQuotaErrorWordOnly(error) ==
  \E k \in 1..Len(error.message) : error.message[k] = "quota"

\* error.message.includes('429') || error.message.includes('quota')
isQuotaError(error) ==
  \E k \in 1..Len(error.message) : error.message[k] \in {"429", "quota"}

\* ---- model listing: names, filter and ranking
\* A model name is the sequence of the pieces of its text, such as
\* <<"models/", "gemini", "-", "2.5", "-pro", "-", "preview">>.
\* name.includes(piece)
NameIncludes(name, piece) == \E k \in 1..Len(name) : name[k] = piece

\* Mutant of toLowerCase: the name is left as it is.
toLowerCaseIdentity(name) == name

\* m.name.toLowerCase(): the pieces written in capitals are "TTS".
toLowerCase(name) ==
  [k \in 1..Len(name) |-> IF name[k] = "TTS" THEN "tts" ELSE name[k]]

\* An entry of data.models; supportedGenerationMethods may be missing.
Methods(set) == [def |-> TRUE, val |-> set]
NoMethods == [def |-> FALSE, val |-> {}]
ModelEntry(name, methods) ==
  [name |-> name, supportedGenerationMethods |-> methods]

\* The name patterns of the models the filter excludes.
ExcludedPatterns == {"tts", "audio", "embedding", "aqa", "imagen"}

\* The predicate of data.models.filter(...)
isValidModel(m) ==
  /\ m.supportedGenerationMethods.def
  /\ "generateContent" \in m.supportedGenerationMethods.val
  /\ LET name == toLowerCase(m.name)
     IN  \A pattern \in ExcludedPatterns : ~NameIncludes(name, pattern)

\* m.name.replace('models/', ''): the first occurrence is removed.
RECURSIVE removePrefix(_)
removePrefix(name) ==
  IF name = <<>> THEN <<>>
  ELSE IF Head(name) = "models/" THEN Tail(name)
  ELSE <<Head(name)>> \o removePrefix(Tail(name))

\* Mutant of getScore: the version generation alone is scored.
getScoreVersionOnly(name) ==
  IF NameIncludes(name, "2.5") THEN 1000
  ELSE IF NameIncludes(name, "2.0") THEN 800
  ELSE IF NameIncludes(name, "1.5") THEN 600
  ELSE IF NameIncludes(name, "1.0") THEN 400
  ELSE 0

\* getScore(name) of sortModelsByQuality
getScore(name) ==
  (IF NameIncludes(name, "2.5") THEN 1000
   ELSE IF NameIncludes(name, "2.0") THEN 800
   ELSE IF NameIncludes(name, "1.5") THEN 600
   ELSE IF NameIncludes(name, "1.0") THEN 400
   ELSE 0)
  + (IF NameIncludes(name, "-pro") THEN 100
     ELSE IF NameIncludes(name, "-flash") THEN 50
     ELSE 0)
  - (IF NameIncludes(name, "exp") \/ NameIncludes(name, "preview")
     THEN 10 ELSE 0)

\* The sorted list with one more name: after every name that scores at
\* least as much (Array.prototype.sort is stable).
RECURSIVE insertByScore(_, _)
insertByScore(sorted, name) ==
  IF sorted = <<>> THEN <<name>>
  ELSE IF getScore(Head(sorted)) >= getScore(name)
       THEN <<Head(sorted)>> \o insertByScore(Tail(sorted), name)
       ELSE <<name>> \o sorted

\* models.sort((a, b) => getScore(b) - getScore(a))
RECURSIVE sortModelsByQuality(_)
sortModelsByQuality(models) ==
  IF models = <<>> THEN <<>>
  ELSE insertByScore(
         sortModelsByQuality(SubSeq(models, 1, Len(models) - 1)),
         models[Len(models)])

\* data.models.filter(...).map(m => m.name.replace('models/', ''))
validModels(models) ==
  LET kept == SelectSeq(models, isValidModel)
  IN  [k \in 1..Len(kept) |-> removePrefix(kept[k].name)]

\* What the transport does with the listing request: a 2xx response with
\* data.models, a non-2xx response, or a rejected fetch.
OkListing(models) == [kind |-> "ok", status |-> "200", models |-> models]
ListingHttpError(status) == [kind |-> "http", status |-> status, models |-> <<>>]
ListingNetworkFailure == [kind |-> "network", status |-> "", models |-> <<>>]

\* ---- target word count
\* A character /\s/ matches.
IsWhitespace(char) == char \in {" ", "\n", "\t"}

\* The text after its leading whitespace.
RECURSIVE skipWhitespace(_)
skipWhitespace(chars) ==
  IF chars # <<>> /\ IsWhitespace(Head(chars))
  THEN skipWhitespace(Tail(chars)) ELSE chars

\* text.split(/\s+/): the pieces between the runs of whitespace, the empty
\* pieces at both ends included; piece is the piece being read.
RECURSIVE splitLoop(_, _)
splitLoop(chars, piece) ==
  IF chars = <<>> THEN <<piece>>
  ELSE IF IsWhitespace(Head(chars))
       THEN <<piece>> \o splitLoop(skipWhitespace(chars), <<>>)
       ELSE splitLoop(Tail(chars), Append(piece, Head(chars)))
split(chars) == splitLoop(chars, <<>>)

\* text.split(/\s+/).filter(w => w.length > 0).length
wordCount(chars) == Len(SelectSeq(split(chars), LAMBDA w : Len(w) > 0))

\* The (wordCount, density) up to 50 words and 120 percent for which the
\* double wordCount * (density / 100) is the double just below k + 0.5
\* while wordCount * density / 100 is k + 0.5: density / 100 is rounded to
\* the nearest double first (25 * (58 / 100) is 14.499999999999998).
DoubleBelowHalf ==
  {<<25, 58>>, <<25, 114>>, <<45, 70>>, <<50, 29>>, <<50, 57>>,
   <<50, 113>>, <<50, 115>>}

\* Math.round(wordCount * (density / 100))
roundProduct(count, density) ==
  IF <<count, density>> \in DoubleBelowHalf
  THEN MathRound(count * density, 100) - 1
  ELSE MathRound(count * density, 100)

\* targetWords = Math.max(1, Math.round(wordCount * (density / 100)))
targetWordsOf(chars, density) == Max(1, roundProduct(wordCount(chars), density))

\* ---- patch applier (app.js)
\* The runs of letters in the text of a tag that have neither "<", "/" nor
\* a \w character before them and neither a \w character nor ">" after
\* them, in order: <span data-decoration="true"> and
\* <span style="color: #rrggbb;font-size: NNpx;">. "span" follows "<" or
\* "/", "px" follows a digit, and </span> holds no such run.
TagWords(token) ==
  IF token.t # "open" THEN <<>>
  ELSE IF token.marker
  THEN << <<"d", "a", "t", "a">>,
          <<"d", "e", "c", "o", "r", "a", "t", "i", "o", "n">>,
          <<"t", "r", "u", "e">> >>
  ELSE << <<"s", "t", "y", "l", "e">> >>
       \o (IF token.color # Null
           THEN << <<"c", "o", "l", "o", "r">> >> ELSE <<>>)
       \o (IF token.hasSize
           THEN << <<"f", "o", "n", "t">>, <<"s", "i", "z", "e">> >>
           ELSE <<>>)

\* The editor's innerHTML is the sequence of the tokens of Serialize; each
\* token carries the runs of its tag text the regex can match (words) and,
\* for the properties, the selected word whose patch wrote it (by is <<>>
\* for the text that was typed).
EditorTokens(tokens, by) ==
  [k \in 1..Len(tokens) |->
     [t |-> tokens[k].t, marker |-> tokens[k].marker,
      color |-> tokens[k].color, hasSize |-> tokens[k].hasSize,
      size |-> tokens[k].size, c |-> tokens[k].c,
      words |-> TagWords(tokens[k]), by |-> by]]

\* What is left of the text of a tag on one side of a replacement made
\* inside it: a piece of a tag, with the runs it still holds.
Broken(token, words) == [token EXCEPT !.t = "broken", !.words = words]

\* A character \w matches: the letters of the texts.
WordChars ==
  {"a", "b", "c", "d", "e", "f", "g", "h", "i", "l", "n", "o", "r", "s", "t",
   "u", "y", "z"}

\* (?<![<\/\w]) before position i: a tag ends with ">".
Lookbehind(tokens, i) ==
  \/ i = 1
  \/ tokens[i - 1].t # "char"
  \/ (tokens[i - 1].c \notin {"<", "/"} /\ tokens[i - 1].c \notin WordChars)

\* (?![\w>]) at position j: a tag starts with "<".
Lookahead(tokens, j) ==
  \/ j > Len(tokens)
  \/ tokens[j].t # "char"
  \/ (tokens[j].c # ">" /\ tokens[j].c \notin WordChars)

\* The regex of applyColorToWords matches the word at position i. The words
\* hold a letter, and the text of a tag holds none of them.
MatchesAt(tokens, i, word) ==
  /\ i + Len(word) - 1 <= Len(tokens)
  /\ \A k \in 1..Len(word) :
       tokens[i + k - 1].t = "char" /\ tokens[i + k - 1].c = word[k]
  /\ Lookbehind(tokens, i)
  /\ Lookahead(tokens, i + Len(word))

\* applyRandomEffects(text, options).html; selected is what the two
\* getRandomEffect calls drew.
applyRandomEffects(chars, selected, options) ==
  combineEffects(chars, selected, options)

\* The regex matches the word inside the text of the tag or piece of a tag.
MatchesInTag(token, word) ==
  \E j \in 1..Len(token.words) : token.words[j] = word

\* html.replace(regex, match => applyRandomEffects(match, options).html)
\* with the g flag, from position i on: every match, left to right, on the
\* string as it was, the search resuming after each match. A match inside
\* the text of a tag cuts the tag in two pieces around the patch. picks
\* holds what the calls of applyRandomEffects draw, in order; short says
\* that it held too few.
RECURSIVE replaceLoop(_, _, _, _, _)
replaceLoop(tokens, i, word, picks, options) ==
  LET matches == {k \in i..Len(tokens) :
                    \/ MatchesAt(tokens, k, word)
                    \/ MatchesInTag(tokens[k], word)}
  IN  IF matches = {}
      THEN [html |-> SubSeq(tokens, i, Len(tokens)), picks |-> picks,
            short |-> FALSE]
      ELSE IF picks = <<>>
      THEN [html |-> <<>>, picks |-> picks, short |-> TRUE]
      ELSE LET at == CHOOSE k \in matches : \A m \in matches : k <= m
               inTag == MatchesInTag(tokens[at], word)
               run == IF inTag
                      THEN CHOOSE j \in 1..Len(tokens[at].words) :
                             tokens[at].words[j] = word
                      ELSE 0
               rest == replaceLoop(tokens,
                                   IF inTag THEN at + 1 ELSE at + Len(word),
                                   word, Tail(picks), options)
               patch == EditorTokens(
                          Serialize(applyRandomEffects(word, Head(picks),
                                                       options)), word)
           IN  [html |->
                  SubSeq(tokens, i, at - 1)
                  \o (IF inTag
                      THEN <<Broken(tokens[at],
                                    SubSeq(tokens[at].words, 1, run - 1))>>
                           \o patch
                           \o <<Broken(tokens[at],
                                       SubSeq(tokens[at].words, run + 1,
                                              Len(tokens[at].words)))>>
                      ELSE patch)
                  \o rest.html,
                picks |-> rest.picks, short |-> rest.short]

\* The sorted list with one more word: after every word at least as long.
RECURSIVE insertByLength(_, _)
insertByLength(sorted, word) ==
  IF sorted = <<>> THEN <<word>>
  ELSE IF Len(Head(sorted)) >= Len(word)
       THEN <<Head(sorted)>> \o insertByLength(Tail(sorted), word)
       ELSE <<word>> \o sorted

\* [...words].sort((a, b) => b.length - a.length)
RECURSIVE sortByLength(_)
sortByLength(list) ==
  IF list = <<>> THEN <<>>
  ELSE insertByLength(sortByLength(SubSeq(list, 1, Len(list) - 1)),
                      list[Len(list)])

\* sortedWords.forEach(word => { html = html.replace(...) })
RECURSIVE forEachWord(_, _, _, _)
forEachWord(tokens, list, picks, options) ==
  IF list = <<>> THEN [html |-> tokens, picks |-> picks, short |-> FALSE]
  ELSE LET first == replaceLoop(tokens, 1, Head(list), picks, options)
       IN  IF first.short THEN first
           ELSE forEachWord(first.html, Tail(list), first.picks, options)

\* ------------------------------------------------------------------ state
VARIABLES
  text,             \* the selected text handed to the engine
  selectedEffects,  \* the { color, size } selection of the last operation
  options,          \* the { intensity, baseSize } the caller passes
  op,               \* the operation that produced html ("none" before any)
  html,             \* the parts of the markup the last operation returned
  sizeArgs,         \* the { intensity, baseSize } its size computation used
  aiText,           \* the text handed to the AI adapter
  aiModels,         \* the ranked list fetchAvailableModels returned
  aiOp,             \* the adapter operation in progress ("none" before any)
  aiPc,             \* "idle", "awaiting" a response, "returned" or "thrown"
  aiIdx,            \* the position in aiModels of the model being tried
  lastError,        \* lastError of the fallback loop
  requests,         \* the models a generateContent request was sent to
  outcomes,         \* what the transport answered to each request
  result,           \* { model, payload } the operation returned
  thrown,           \* the error the operation threw
  response,         \* the model response handed to parseWordsFromResponse
  words,            \* the words parseWordsFromResponse returned
  parsed,           \* whether parseWordsFromResponse has run
  cachedModels,     \* cachedModels of the adapter: the cached list, if any
  storedKey,        \* localStorage gemini_api_key
  calls,            \* the calls of fetchAvailableModels, per call slot
  cachedFrom,       \* the key and the listing the cached list came from
  firstListing,     \* the list of the first listing since the last clear
  cleared,          \* clearCache was called and no call has started since
  aiDensity,        \* the density handed to analyzeTextForColoring
  targetWords,      \* targetWords of analyzeTextForColoring, once computed
  editorHtml,       \* editor.innerHTML
  resultWords,      \* result.words handed to applyColorToWords
  sortedWords,      \* sortedWords of applyColorToWords
  patchOp,          \* the patch operation that has run ("none" before any)
  activeEffects,    \* activeEffects of the application: { color, size }
  launch            \* the run of handleAIColoring and the launch button

engineVars == <<text, selectedEffects, options, op, html, sizeArgs>>
aiVars == <<aiModels, aiOp, aiPc, aiIdx, lastError, requests, outcomes,
            result, thrown>>
parseVars == <<response, words, parsed>>
cacheVars == <<cachedModels, storedKey, calls, cachedFrom, firstListing,
               cleared>>
targetVars == <<aiDensity, targetWords>>
patchVars == <<editorHtml, resultWords, sortedWords, patchOp>>
uiVars == <<activeEffects, launch>>
appVars == <<cacheVars, targetVars, patchVars, uiVars>>
vars == <<engineVars, aiText, aiVars, parseVars, appVars>>

RECURSIVE SeqsUpTo(_, _)
SeqsUpTo(S, n) ==
  IF n = 0 THEN {<<>>}
  ELSE LET shorter == SeqsUpTo(S, n - 1)
       IN  shorter \cup {Append(s, c) : s \in shorter, c \in S}

NoEffects == [color |-> Null, size |-> Null]
NoOptions == [intensity |-> Undefined, baseSize |-> Undefined]

\* The options a size computation of the refactored engine receives, when
\* one runs: getOffset is called once per non-space character.
RefactoredSizeArgs(t, sel, opts) ==
  IF sel.size # Null /\ NonSpaceCount(t) > 0 THEN {OffsetOptions(opts)} ELSE {}

\* The intensity and baseSize the legacy size computations use
\* (effects.js 195-196, 97-98, 125-126, 157-158).
LegacySizeArgs(t, sel, opts) ==
  IF sel.size # Null /\ NonSpaceCount(t) > 0
  THEN {[intensity |-> Num(OrDefault(opts.intensity, 5)),
         baseSize |-> Num(OrDefault(opts.baseSize, 16))]}
  ELSE {}

\* Each behaviour is one call on the drawn input: an operation starts from
\* the state before any call (op = "none").
\* window.combineEffects(text, sel, options) with the refactored engine.
CombineEffects(sel) ==
  /\ op = "none"
  /\ selectedEffects' = sel
  /\ op' = "combineEffects"
  /\ html' = combineEffects(text, sel, options)
  /\ sizeArgs' = RefactoredSizeArgs(text, sel, options)
  /\ UNCHANGED <<text, options, aiText, aiVars, parseVars, appVars>>

\* window.combineEffects(text, sel, options) with the legacy engine.
LegacyCombineEffects(sel) ==
  /\ op = "none"
  /\ selectedEffects' = sel
  /\ op' = "legacyCombineEffects"
  /\ html' = legacyCombineEffects(text, sel, options)
  /\ sizeArgs' = LegacySizeArgs(text, sel, options)
  /\ UNCHANGED <<text, options, aiText, aiVars, parseVars, appVars>>

\* EFFECTS.color[key].apply(text, options)
ColorApply(key) ==
  /\ op = "none"
  /\ selectedEffects' = [color |-> key, size |-> Null]
  /\ op' = "colorApply"
  /\ html' = colorApply(key, text)
  /\ sizeArgs' = {}
  /\ UNCHANGED <<text, options, aiText, aiVars, parseVars, appVars>>

\* EFFECTS.size[key].apply(text, options)
SizeApply(key) ==
  /\ op = "none"
  /\ selectedEffects' = [color |-> Null, size |-> key]
  /\ op' = "sizeApply"
  /\ html' = sizeApply(key, text, options)
  /\ sizeArgs' = LegacySizeArgs(text, [color |-> Null, size |-> key], options)
  /\ UNCHANGED <<text, options, aiText, aiVars, parseVars, appVars>>

EngineIdle ==
  /\ selectedEffects = NoEffects
  /\ op = "none"
  /\ html = <<>>
  /\ sizeArgs = {}

NoResult == [model |-> Null, payload |-> <<>>]

AIIdle ==
  /\ aiOp = "none"
  /\ aiPc = "idle"
  /\ aiIdx = 0
  /\ lastError = NoError
  /\ requests = <<>>
  /\ outcomes = <<>>
  /\ result = NoResult
  /\ thrown = NoError

ParseIdle ==
  /\ response = <<>>
  /\ words = <<>>
  /\ parsed = FALSE

\* ---- the model cache and the calls of fetchAvailableModels
MaxCalls == 2            \* most calls of fetchAvailableModels at a time

Calls == 1..MaxCalls
Keys == {"key1", "key2"}

NoCache == [set |-> FALSE, list |-> <<>>]
Cached(list) == [set |-> TRUE, list |-> list]
NoSource == [apiKey |-> Null, listing |-> <<>>]

\* A call slot: the caller and its key, where the call stands, whether it
\* sent a listing request, what it returned or threw; and, for the
\* properties, where its list came from, what the cache held when it
\* started and whether it is the first call after a clearCache.
IdleCall ==
  [pc |-> "idle", caller |-> "none", apiKey |-> Null, requested |-> FALSE,
   models |-> <<>>, error |-> NoError, from |-> NoSource,
   atStart |-> NoCache, afterClear |-> FALSE]

CacheIdle ==
  /\ cachedModels = NoCache
  /\ storedKey = Null
  /\ calls = [c \in Calls |-> IdleCall]
  /\ cachedFrom = NoSource
  /\ firstListing = NoCache
  /\ cleared = FALSE

\* density = 30 is the default of analyzeTextForColoring.
TargetIdle ==
  /\ aiDensity = 30
  /\ targetWords = Undefined

PatchIdle ==
  /\ editorHtml = <<>>
  /\ resultWords = <<>>
  /\ sortedWords = <<>>
  /\ patchOp = "none"

\* No effect is active, no run of handleAIColoring has started and the
\* launch button is enabled.
NoLaunch ==
  [pc |-> "idle", disabled |-> FALSE, emoji |-> "none", ended |-> "none",
   before |-> <<>>]
UIIdle ==
  /\ activeEffects = NoEffects
  /\ launch = NoLaunch

AppIdle == CacheIdle /\ TargetIdle /\ PatchIdle /\ UIIdle

\* No engine call is made in the adapter specifications.
EngineUnused ==
  /\ text = <<>>
  /\ options = NoOptions
  /\ EngineIdle

\* No adapter call is made in the engine specifications.
AdapterUnused ==
  /\ aiText = <<>>
  /\ aiModels = <<>>
  /\ AIIdle
  /\ ParseIdle
  /\ AppIdle

\* ---- color specification: every text, one color effect, options omitted
Init ==
  /\ text \in SeqsUpTo(Alphabet, MaxLen)
  /\ options = NoOptions
  /\ EngineIdle
  /\ AdapterUnused

Next ==
  \/ \E c \in ColorKeys : CombineEffects([color |-> c, size |-> Null])
  \/ \E c \in ColorKeys : LegacyCombineEffects([color |-> c, size |-> Null])
  \/ \E c \in ColorKeys : ColorApply(c)

Spec == Init /\ [][Next]_vars

\* ---- size specification: every text, one size effect, options in range
SizeOptions ==
  [intensity : {Num(n) : n \in 1..MaxIntensity},
   baseSize : {Num(n) : n \in MinBaseSize..MaxBaseSize}]

\* n letters
Letters(n) == [k \in 1..n |-> "a"]

\* The texts of the size specification: up to MaxSizeLen letters with no
\* space, with a leading space, or with a space after the first letter
\* (sizes depend on the positions of the characters only).
SizeTexts ==
  {Letters(n) : n \in 0..MaxSizeLen}
  \cup {<<" ">> \o Letters(n) : n \in 0..MaxSizeLen}
  \cup {<<"a", " ">> \o Letters(n) : n \in 0..(MaxSizeLen - 1)}

InitSize ==
  /\ text \in SizeTexts
  /\ options \in SizeOptions
  /\ EngineIdle
  /\ AdapterUnused

NextSize ==
  \/ \E s \in SizeKeys : CombineEffects([color |-> Null, size |-> s])
  \/ \E s \in SizeKeys : LegacyCombineEffects([color |-> Null, size |-> s])
  \/ \E s \in SizeKeys : SizeApply(s)

SpecSize == InitSize /\ [][NextSize]_vars

\* ---- options specification: any options, also missing or out of range
MaxOption == 11          \* largest intensity or baseSize a caller passes

AnyOptions ==
  [intensity : {Undefined} \cup {Num(n) : n \in 0..MaxOption},
   baseSize : {Undefined} \cup {Num(n) : n \in 0..MaxOption}]

InitOptions ==
  /\ text \in SeqsUpTo({" ", "a"}, 2)
  /\ options \in AnyOptions
  /\ EngineIdle
  /\ AdapterUnused

SpecOptions == InitOptions /\ [][NextSize]_vars

\* ---- engines specification: both engines on a text, any selection of
\* catalog effects, options in range
\* The texts: up to MaxSizeLen letters, a space alone, and a text with a
\* space after its first letter.
EngineTexts ==
  {Letters(n) : n \in 0..MaxSizeLen}
  \cup {<<" ">>, <<"a", " ">> \o Letters(MaxSizeLen - 1)}

\* A color effect of the catalog or none, a size effect of the catalog or
\* none.
Selections ==
  [color : ColorKeys \cup {Null}, size : SizeKeys \cup {Null}]

InitEngines ==
  /\ text \in EngineTexts
  /\ options \in SizeOptions
  /\ EngineIdle
  /\ AdapterUnused

NextEngines ==
  \/ \E sel \in Selections : CombineEffects(sel)
  \/ \E sel \in Selections : LegacyCombineEffects(sel)

SpecEngines == InitEngines /\ [][NextEngines]_vars

\* ---- parse specification: parseWordsFromResponse on every response
MaxRespLen == 5          \* most tokens in a model response

ParseTokens == {LB, RB, COMMA, WORD, Str(<<"a">>), Str(<<"a", "A">>)}
ParseTexts == {<<"b", "a", "A">>, <<"A", "a">>, <<"b", "A">>}

ParseWords ==
  /\ ~parsed
  /\ words' = parseWordsFromResponse(response, aiText)
  /\ parsed' = TRUE
  /\ UNCHANGED <<engineVars, aiText, aiVars, response, appVars>>

InitParse ==
  /\ EngineUnused
  /\ aiText \in ParseTexts
  /\ aiModels = <<>>
  /\ AIIdle
  /\ response \in SeqsUpTo(ParseTokens, MaxRespLen)
  /\ words = <<>>
  /\ parsed = FALSE
  /\ AppIdle

NextParse == ParseWords

SpecParse == InitParse /\ [][NextParse]_vars

\* ---- fallback specification: one adapter operation over the ranked models
MaxModels == 3           \* most models in the ranked list

RankedModels == <<"gemini-2.5-pro", "gemini-2.5-flash", "gemini-2.0-flash",
                  "gemini-1.5-pro", "gemini-1.5-flash">>

\* The text of the fallback specification and the answers of the transport.
FallbackText == <<"b", "a">>
\* The empty text and a text of whitespace only.
EmptyTexts == {<<>>, <<" ">>}
Bodies ==
  {<<>>, <<LB, Str(<<"a">>), RB>>, <<LB, Str(<<"z">>), RB>>,
   <<LB, Str(<<"z">>), COMMA, Str(<<"a">>), RB>>, <<EMOJI>>}
Outcomes ==
  {OkResponse(b) : b \in Bodies}
  \cup {HttpError(st, m) : st \in {"429", "500", "403"},
                           m \in {"", "quota", "internal"}}
  \cup {NetworkFailure}

\* The operation o once fetchAvailableModels has returned models: the
\* empty-list check and the first iteration of the loop up to its await.
StartLoop(o, models) ==
  /\ aiOp' = o
  /\ IF Len(models) = 0
     THEN /\ aiPc' = "thrown"
          /\ thrown' = Error(<<"No compatible models available">>)
          /\ UNCHANGED <<aiIdx, requests, targetWords>>
     ELSE /\ aiPc' = "awaiting"
          /\ aiIdx' = 1
          /\ requests' = <<models[1]>>
          /\ targetWords' = IF o = "analyzeTextForColoring"
                            THEN Num(targetWordsOf(aiText, aiDensity))
                            ELSE targetWords
          /\ UNCHANGED thrown

\* const models = await fetchAvailableModels(apiKey), then the empty-list
\* check and the first iteration of the loop up to its await.
Begin(o) ==
  /\ aiPc = "idle"
  /\ StartLoop(o, aiModels)
  /\ UNCHANGED <<engineVars, aiText, aiModels, lastError, outcomes, result,
                 parseVars, cacheVars, aiDensity, patchVars, uiVars>>

analyzeTextForColoring == Begin("analyzeTextForColoring")

getEmojiForText == Begin("getEmojiForText")

\* Payload with nothing validated: the text of the response is the result.
PayloadUnvalidated(o, responseText) == <<responseText>>

\* The usable part of a response text: the validated words, or the emoji.
Payload(o, responseText) ==
  IF o = "analyzeTextForColoring"
  THEN parseWordsFromResponse(responseText, aiText)
  ELSE extractEmoji(responseText)

\* NextModel with the request of the rank after the next sent along with it.
NextModelAhead(err) ==
  IF aiIdx < Len(aiModels)
  THEN /\ aiPc' = "awaiting"
       /\ aiIdx' = aiIdx + 1
       /\ requests' = requests \o SubSeq(aiModels, aiIdx + 1,
            IF aiIdx + 2 <= Len(aiModels) THEN aiIdx + 2 ELSE aiIdx + 1)
       /\ UNCHANGED <<result, thrown>>
  ELSE /\ aiPc' = "thrown"
       /\ thrown' = IF err.isError THEN err
                    ELSE Error(<<"All models failed">>)
       /\ UNCHANGED <<aiIdx, requests, result>>

\* NextModel throwing the generic error whatever was caught before.
NextModelGenericError(err) ==
  IF aiIdx < Len(aiModels)
  THEN /\ aiPc' = "awaiting"
       /\ aiIdx' = aiIdx + 1
       /\ requests' = Append(requests, aiModels[aiIdx + 1])
       /\ UNCHANGED <<result, thrown>>
  ELSE /\ aiPc' = "thrown"
       /\ thrown' = Error(<<"All models failed">>)
       /\ UNCHANGED <<aiIdx, requests, result>>

\* The loop goes on to the next model, or ends: throw lastError || new
\* Error('All models failed').
NextModel(err) ==
  IF aiIdx < Len(aiModels)
  THEN /\ aiPc' = "awaiting"
       /\ aiIdx' = aiIdx + 1
       /\ requests' = Append(requests, aiModels[aiIdx + 1])
       /\ UNCHANGED <<result, thrown>>
  ELSE /\ aiPc' = "thrown"
       /\ thrown' = IF err.isError THEN err
                    ELSE Error(<<"All models failed">>)
       /\ UNCHANGED <<aiIdx, requests, result>>

\* The request in flight completes and the loop runs up to its next await,
\* its return or its throw.
LoopResponds(outcome) ==
  /\ aiPc = "awaiting"
  /\ outcomes' = Append(outcomes, outcome)
  /\ LET call == callGeminiAPI(outcome)
         payload == Payload(aiOp, call.text)
     IN  IF ~call.threw
         THEN /\ UNCHANGED lastError
              /\ IF payload # <<>>
                 THEN /\ aiPc' = "returned"
                      /\ result' = [model |-> aiModels[aiIdx],
                                    payload |-> payload]
                      /\ UNCHANGED <<aiIdx, requests, thrown>>
                 ELSE NextModel(lastError)
         ELSE /\ lastError' = call.error
              /\ IF ~isQuotaError(call.error)
                 THEN /\ aiPc' = "thrown"
                      /\ thrown' = call.error
                      /\ UNCHANGED <<aiIdx, requests, result>>
                 ELSE NextModel(call.error)

Respond(outcome) ==
  /\ LoopResponds(outcome)
  /\ UNCHANGED <<engineVars, aiText, aiModels, aiOp, parseVars, appVars>>

InitAI ==
  /\ EngineUnused
  /\ aiText \in {FallbackText} \cup EmptyTexts
  /\ aiModels \in {SubSeq(RankedModels, 1, n) : n \in 0..MaxModels}
  /\ AIIdle
  /\ ParseIdle
  /\ AppIdle

NextAI ==
  \/ analyzeTextForColoring
  \/ getEmojiForText
  \/ \E outcome \in Outcomes : Respond(outcome)

SpecAI == InitAI /\ [][NextAI]_vars

\* ---- cache specification: callers, listing responses and clearCache
\* fetchAvailableModels(apiKey) up to its return of the cached list or its
\* await of the listing request; the caller is kept for the properties.
fetchAvailableModels(c, apiKey, caller) ==
  /\ calls[c].pc # "awaiting"
  /\ calls' = [calls EXCEPT ![c] =
       IF cachedModels.set
       THEN [pc |-> "returned", caller |-> caller, apiKey |-> apiKey,
             requested |-> FALSE, models |-> cachedModels.list,
             error |-> NoError, from |-> cachedFrom,
             atStart |-> cachedModels, afterClear |-> cleared]
       ELSE [pc |-> "awaiting", caller |-> caller, apiKey |-> apiKey,
             requested |-> TRUE, models |-> <<>>,
             error |-> NoError, from |-> NoSource,
             atStart |-> cachedModels, afterClear |-> cleared]]
  /\ cleared' = FALSE
  /\ UNCHANGED <<cachedModels, cachedFrom, firstListing>>

\* controls.launchAiBtn.disabled: from the start of handleAIColoring to its
\* end, of which the call of fetchAvailableModels is a part.
launchAiBtnDisabled ==
  \E c \in Calls :
    calls[c].caller = "handleAIColoring" /\ calls[c].pc = "awaiting"

\* A click on the launch button with a key in the input: handleAIColoring
\* stores the key and analyzeTextForColoring starts with
\* fetchAvailableModels(apiKey).
handleAIColoring(c, apiKey) ==
  /\ ~launchAiBtnDisabled
  /\ storedKey' = apiKey
  /\ fetchAvailableModels(c, apiKey, "handleAIColoring")
  /\ UNCHANGED <<engineVars, aiText, aiVars, parseVars, targetVars,
                 patchVars, uiVars>>

\* A click on the emoji button with a stored key: handleEmojiAdd calls
\* getEmojiForText, which starts with fetchAvailableModels(apiKey).
handleEmojiAdd(c) ==
  /\ storedKey # Null
  /\ fetchAvailableModels(c, storedKey, "handleEmojiAdd")
  /\ UNCHANGED <<engineVars, aiText, aiVars, parseVars, storedKey, targetVars,
                 patchVars, uiVars>>

\* The listing request of a call completes: the call throws, or filters,
\* ranks, caches and returns the list.
ListingCompletes(c, outcome) ==
  /\ calls[c].pc = "awaiting"
  /\ IF outcome.kind = "ok"
     THEN LET list == sortModelsByQuality(validModels(outcome.models))
              source == [apiKey |-> calls[c].apiKey,
                         listing |-> outcome.models]
          IN  /\ cachedModels' = Cached(list)
              /\ cachedFrom' = source
              /\ firstListing' =
                   IF firstListing.set THEN firstListing ELSE Cached(list)
              /\ calls' = [calls EXCEPT ![c].pc = "returned",
                                        ![c].models = list,
                                        ![c].from = source]
     ELSE /\ calls' = [calls EXCEPT
                ![c].pc = "thrown",
                ![c].error =
                  IF outcome.kind = "http"
                  THEN Error(<<"Failed to fetch models: ", outcome.status>>)
                  ELSE Error(<<"Failed to fetch">>)]
          /\ UNCHANGED <<cachedModels, cachedFrom, firstListing>>

ListingResponds(c, outcome) ==
  /\ ListingCompletes(c, outcome)
  /\ UNCHANGED <<engineVars, aiText, aiVars, parseVars, storedKey, cleared,
                 targetVars, patchVars, uiVars>>

\* clearCache()
clearCache ==
  /\ cachedModels' = NoCache
  /\ cachedFrom' = NoSource
  /\ firstListing' = NoCache
  /\ cleared' = TRUE
  /\ UNCHANGED <<engineVars, aiText, aiVars, parseVars, storedKey, calls,
                 targetVars, patchVars, uiVars>>

\* The names of the listings.
ModelName(generation, tier, label) ==
  <<"models/", "gemini", "-", generation>> \o tier \o label

\* The listings of the cache specification, and its listing outcomes.
CacheListings ==
  {<<ModelEntry(ModelName("2.5", <<"-pro">>, <<>>),
                Methods({"generateContent"}))>>,
   <<ModelEntry(ModelName("2.0", <<"-flash">>, <<>>),
                Methods({"generateContent"}))>>}
CacheOutcomes ==
  {OkListing(l) : l \in CacheListings}
  \cup {ListingHttpError("403"), ListingNetworkFailure}

\* The page has loaded; a key may be stored from an earlier session.
InitCache ==
  /\ EngineUnused
  /\ aiText = <<>>
  /\ aiModels = <<>>
  /\ AIIdle
  /\ ParseIdle
  /\ cachedModels = NoCache
  /\ storedKey \in {Null} \cup Keys
  /\ calls = [c \in Calls |-> IdleCall]
  /\ cachedFrom = NoSource
  /\ firstListing = NoCache
  /\ cleared = FALSE
  /\ TargetIdle
  /\ PatchIdle
  /\ UIIdle

NextCache ==
  \/ \E c \in Calls, apiKey \in Keys : handleAIColoring(c, apiKey)
  \/ \E c \in Calls : handleEmojiAdd(c)
  \/ \E c \in Calls, outcome \in CacheOutcomes : ListingResponds(c, outcome)
  \/ clearCache

SpecCache == InitCache /\ [][NextCache]_vars

\* The cache specification with no two calls at a time: a call starts, and
\* clearCache is called, while no listing request is in flight.
NoRequestInFlight == \A c \in Calls : calls[c].pc # "awaiting"

NextCacheSerial ==
  \/ \E c \in Calls, apiKey \in Keys :
       NoRequestInFlight /\ handleAIColoring(c, apiKey)
  \/ \E c \in Calls : NoRequestInFlight /\ handleEmojiAdd(c)
  \/ \E c \in Calls, outcome \in CacheOutcomes : ListingResponds(c, outcome)
  \/ NoRequestInFlight /\ clearCache

SpecCacheSerial == InitCache /\ [][NextCacheSerial]_vars

\* ---- ranking specification: one call, every listing of a few models
MaxListing == 2          \* most models in the remote listing

Generations == {"1.0", "1.5", "2.0", "2.5", "3.0"}
Tiers == {<<"-pro">>, <<"-flash">>, <<>>}
Labels == {<<>>, <<"-", "preview">>}

\* The models of the listings: every generation, tier and label; a lite and
\* an experimental model; a model of each excluded kind, one named in
\* capitals; models that lack generateContent; a name with no prefix.
RankEntries ==
  {ModelEntry(ModelName(g, t, l), Methods({"generateContent"})) :
     g \in Generations, t \in Tiers, l \in Labels}
  \cup {ModelEntry(ModelName("2.0", <<"-flash", "-lite">>, <<>>),
                   Methods({"generateContent"})),
        ModelEntry(ModelName("2.5", <<"-pro">>, <<"-", "exp">>),
                   Methods({"generateContent"}))}
FilterEntries ==
  {ModelEntry(ModelName("2.5", <<"-flash">>, <<"-", kind>>),
              Methods({"generateContent"})) :
     kind \in ExcludedPatterns \cup {"TTS"}}
  \cup {ModelEntry(ModelName("2.5", <<"-flash">>, <<>>), Methods({"embedContent"})),
        ModelEntry(ModelName("2.5", <<"-flash">>, <<>>), NoMethods),
        ModelEntry(<<"gemini", "-", "1.5", "-flash">>,
                   Methods({"generateContent", "countTokens"}))}
RankListings == SeqsUpTo(RankEntries \cup FilterEntries, MaxListing)

InitRank ==
  /\ EngineUnused
  /\ aiText = <<>>
  /\ aiModels = <<>>
  /\ AIIdle
  /\ ParseIdle
  /\ AppIdle

NextRank ==
  \/ handleAIColoring(1, "key1")
  \/ /\ calls[1].pc = "awaiting"
     /\ \E l \in RankListings : ListingResponds(1, OkListing(l))

SpecRank == InitRank /\ [][NextRank]_vars

\* ---- target specification: texts of up to MaxWords words, every density
MaxWords == 25           \* most words in the text
MaxDensity == 100        \* largest density of the slider, in percent

\* n words joined by a separator, bare or within whitespace.
RECURSIVE JoinWords(_, _)
JoinWords(n, separator) ==
  IF n = 0 THEN <<>>
  ELSE IF n = 1 THEN <<"a">>
  ELSE JoinWords(n - 1, separator) \o separator \o <<"a">>
TargetTexts ==
  {JoinWords(n, separator) :
     n \in 0..MaxWords, separator \in {<<" ">>, <<"\n", " ">>}}
  \cup {<<" ">> \o JoinWords(n, <<"\t">>) \o <<"\n">> : n \in 0..MaxWords}

InitTarget ==
  /\ EngineUnused
  /\ aiText \in TargetTexts
  /\ aiModels = <<RankedModels[1]>>
  /\ AIIdle
  /\ ParseIdle
  /\ CacheIdle
  /\ aiDensity \in 0..MaxDensity
  /\ targetWords = Undefined
  /\ PatchIdle
  /\ UIIdle

SpecTarget == InitTarget /\ [][analyzeTextForColoring]_vars

\* ---- patch specification: plain text in the editor, validated words
MaxPatchLen == 3         \* longest text over the letters a, b and the space
MaxPatchWords == 2       \* most words in result.words
MaxPicks == 3            \* most calls of applyRandomEffects in one patch

\* The text of the example, and the texts of the editor.
ExampleText ==
  <<"t", "h", "e", " ", "c", "a", "t", "e", "g", "o", "r", "y", " ",
    "i", "s", " ", "a", "b", "o", "u", "t", " ", "a", " ", "c", "a", "t">>
\* A text with a word that the tags of the markup hold too.
TagExampleText == <<"u", "n", "t", "r", "u", "e">>
PatchTexts ==
  (SeqsUpTo({"a", "b", " "}, MaxPatchLen) \ {<<>>})
    \cup {ExampleText, TagExampleText}

\* The words analyzeTextForColoring may return for a text: they occur in
\* it; those of the specification hold a letter.
ValidWords(chars) ==
  IF chars = ExampleText
  THEN {<<"c", "a", "t">>, <<"c", "a", "t", "e", "g", "o", "r", "y">>}
  ELSE IF chars = TagExampleText
  THEN {<<"t", "r", "u", "e">>, TagExampleText}
  ELSE {SubSeq(chars, i, j) : i \in 1..Len(chars), j \in 1..Len(chars)}
       \ SeqsUpTo({" "}, MaxPatchLen)
WordLists(chars) == SeqsUpTo(ValidWords(chars), MaxPatchWords) \ {<<>>}

\* The options applyColorToWords reads from the two sliders.
PatchOptions == [intensity |-> Num(5), baseSize |-> Num(16)]

\* What one call of applyRandomEffects may draw.
EffectPicks == [color : ColorKeys, size : SizeKeys]

\* applyColorToWords(selected). The number of calls of applyRandomEffects does
\* not depend on what they draw; it is counted on a run with one draw.
applyColorToWords(selected) ==
  /\ LET sorted == sortByLength(selected)
         draw == CHOOSE pick \in EffectPicks : TRUE
         counted == forEachWord(editorHtml, sorted,
                                [k \in 1..MaxPicks |-> draw], PatchOptions)
     IN  /\ ~counted.short
         /\ sortedWords' = sorted
         /\ \E picks \in [1..(MaxPicks - Len(counted.picks)) -> EffectPicks] :
              LET patched == forEachWord(editorHtml, sorted, picks,
                                         PatchOptions)
              IN  /\ ~patched.short
                  /\ patched.picks = <<>>
                  /\ editorHtml' = patched.html
  /\ patchOp' = "applyColorToWords"

\* One call of applyColorToWords on the words drawn.
ApplyColorToWords ==
  /\ patchOp = "none"
  /\ resultWords # <<>>
  /\ applyColorToWords(resultWords)
  /\ UNCHANGED <<engineVars, aiText, aiVars, parseVars, cacheVars, targetVars,
                 resultWords, uiVars>>

InitPatch ==
  /\ EngineUnused
  /\ aiText \in PatchTexts
  /\ aiModels = <<>>
  /\ AIIdle
  /\ ParseIdle
  /\ CacheIdle
  /\ TargetIdle
  /\ editorHtml = EditorTokens(CharTokens(aiText), <<>>)
  /\ resultWords \in WordLists(aiText)
  /\ sortedWords = <<>>
  /\ patchOp = "none"
  /\ UIIdle

SpecPatch == InitPatch /\ [][ApplyColorToWords]_vars

\* ---- effect buttons specification: apply-effect, random mode, clear-all
MaxUILen == 2            \* longest selected text

\* What getCleanSelectedText may return: the text of the saved selection.
UITexts == SeqsUpTo({"a", " "}, MaxUILen)

\* saveSelection() on a mousedown outside the editor: the selection the
\* next handler restores; text is what getCleanSelectedText returns for it.
saveSelection(chars) ==
  /\ text' = chars
  /\ UNCHANGED <<selectedEffects, options, op, html, sizeArgs, aiText, aiVars,
                 parseVars, appVars>>

\* Mutant of applyEffect: the slot of the other category is emptied.
applyEffectResetting(category, effectName) ==
  /\ text # <<>>
  /\ activeEffects' = [NoEffects EXCEPT ![category] = effectName]
  /\ selectedEffects' = activeEffects'
  /\ op' = "combineEffects"
  /\ html' = combineEffects(text, activeEffects', options)
  /\ sizeArgs' = RefactoredSizeArgs(text, activeEffects', options)
  /\ UNCHANGED <<text, options, aiText, aiVars, parseVars, cacheVars,
                 targetVars, patchVars, launch>>

\* applyEffect(category, effectName): a click on an effect button. With no
\* selected text nothing changes; else the slot of the category is set and
\* the selection is replaced by the markup of combineEffects.
applyEffect(category, effectName) ==
  /\ IF text = <<>>
     THEN UNCHANGED <<activeEffects, selectedEffects, op, html, sizeArgs>>
     ELSE /\ activeEffects' = [activeEffects EXCEPT ![category] = effectName]
          /\ selectedEffects' = activeEffects'
          /\ op' = "combineEffects"
          /\ html' = combineEffects(text, activeEffects', options)
          /\ sizeArgs' = RefactoredSizeArgs(text, activeEffects', options)
  /\ UNCHANGED <<text, options, aiText, aiVars, parseVars, cacheVars,
                 targetVars, patchVars, launch>>

\* handleRandomMode(): activeEffects is reset, then set to what
\* applyRandomEffects drew, and the selection is replaced by its markup.
\* emoji says that the draw of 20 percent, a stored key and the answer of
\* getEmojiForText let a text node with the emoji follow the selection.
handleRandomMode(pick, emoji) ==
  /\ IF text = <<>>
     THEN UNCHANGED <<activeEffects, selectedEffects, op, html, sizeArgs>>
     ELSE /\ activeEffects' = pick
          /\ selectedEffects' = pick
          /\ op' = "applyRandomEffects"
          /\ html' = applyRandomEffects(text, pick, options)
                       \o (IF emoji THEN <<BareText(<<" ", "emoji">>)>>
                           ELSE <<>>)
          /\ sizeArgs' = RefactoredSizeArgs(text, pick, options)
  /\ UNCHANGED <<text, options, aiText, aiVars, parseVars, cacheVars,
                 targetVars, patchVars, launch>>

\* The click handler of clearBtn: when the user confirms, the editor is
\* emptied and activeEffects is reset.
clearBtnClick(confirmed) ==
  /\ IF confirmed
     THEN /\ html' = <<>>
          /\ text' = <<>>
          /\ activeEffects' = NoEffects
          /\ op' = "clear"
     ELSE UNCHANGED <<html, text, activeEffects, op>>
  /\ UNCHANGED <<selectedEffects, options, sizeArgs, aiText, aiVars,
                 parseVars, cacheVars, targetVars, patchVars, launch>>

InitUI ==
  /\ text \in UITexts
  /\ options = PatchOptions
  /\ EngineIdle
  /\ AdapterUnused

NextUI ==
  \/ \E chars \in UITexts : saveSelection(chars)
  \/ \E c \in ColorKeys : applyEffect("color", c)
  \/ \E z \in SizeKeys : applyEffect("size", z)
  \/ \E pick \in EffectPicks, emoji \in BOOLEAN : handleRandomMode(pick, emoji)
  \/ \E confirmed \in BOOLEAN : clearBtnClick(confirmed)

SpecUI == InitUI /\ [][NextUI]_vars


\* ---- launch specification: one run of handleAIColoring, from the click on
\* the launch button to the end of the handler
\* The editor texts of the launch specification.
LaunchTexts == EmptyTexts \cup {FallbackText, <<"b", " ", "a">>}

\* The listings of the launch specification: no model, or two models.
LaunchListings ==
  {<<>>,
   <<ModelEntry(ModelName("2.0", <<"-flash">>, <<>>),
                Methods({"generateContent"})),
     ModelEntry(ModelName("2.5", <<"-pro">>, <<>>),
                Methods({"generateContent"}))>>}
LaunchOutcomes ==
  {OkListing(l) : l \in LaunchListings}
  \cup {ListingHttpError("403"), ListingNetworkFailure}

\* text.trim() is empty.
trimIsEmpty(chars) == \A i \in 1..Len(chars) : IsWhitespace(chars[i])

\* The emoji phase with its emojis put at the end of the editor.
emojiPhaseApplied(tokens, emojiDensity) ==
  IF emojiDensity > 0 THEN tokens \o EditorTokens(<<CharToken("emoji")>>, <<>>)
  ELSE tokens

\* The emoji phase of handleAIColoring: AIService has no
\* analyzeTextForEmojis, the call raises a TypeError which the inner catch
\* logs, and applyEmojisToEditor is not reached.
emojiPhase(tokens, emojiDensity) == tokens

\* The end of the handler without its finally: the button is enabled again
\* after a success only.
finallyOnSuccessOnly(l, ended) ==
  [l EXCEPT !.pc = "done", !.ended = ended, !.disabled = ended # "success"]

\* The end of the try block of handleAIColoring: its return or its catch,
\* then finally { controls.launchAiBtn.disabled = false }.
finally(l, ended) ==
  [l EXCEPT !.pc = "done", !.ended = ended, !.disabled = FALSE]

\* A click on the launch button: handleAIColoring up to an early return, or
\* up to the first request analyzeTextForColoring awaits; with a cached list
\* no listing is requested.
HandleAIColoring(apiKey, emojiDensity) ==
  /\ launch.pc = "idle"
  /\ ~launch.disabled
  /\ IF apiKey = ""
     THEN /\ launch' = [launch EXCEPT !.pc = "done", !.ended = "noKey",
                                      !.before = editorHtml]
          /\ UNCHANGED <<aiVars, cacheVars, targetWords, editorHtml>>
     ELSE IF trimIsEmpty(aiText)
     THEN /\ storedKey' = apiKey
          /\ launch' = [launch EXCEPT !.pc = "done", !.ended = "noText",
                                      !.before = editorHtml]
          /\ UNCHANGED <<aiVars, cachedModels, calls, cachedFrom,
                         firstListing, cleared, targetWords, editorHtml>>
     ELSE /\ storedKey' = apiKey
          /\ editorHtml' = emojiPhase(editorHtml, emojiDensity)
          /\ fetchAvailableModels(1, apiKey, "handleAIColoring")
          /\ LET started ==
                   [launch EXCEPT !.disabled = TRUE,
                                  !.before = editorHtml,
                                  !.emoji = IF emojiDensity > 0 THEN "failed"
                                            ELSE "skipped"]
             IN  IF cachedModels.set
                 THEN /\ aiModels' = cachedModels.list
                      /\ StartLoop("analyzeTextForColoring",
                                   cachedModels.list)
                      /\ launch' = IF cachedModels.list = <<>>
                                   THEN finally(started, "error")
                                   ELSE [started EXCEPT !.pc = "requesting"]
                      /\ UNCHANGED <<lastError, outcomes, result>>
                 ELSE /\ launch' = [started EXCEPT !.pc = "listing"]
                      /\ UNCHANGED <<aiVars, targetWords>>
  /\ UNCHANGED <<engineVars, aiText, parseVars, aiDensity, resultWords,
                 sortedWords, patchOp, activeEffects>>

\* The listing request of the run completes: analyzeTextForColoring throws
\* what fetchAvailableModels threw, or starts its loop on the list.
ListingOfRunResponds(outcome) ==
  /\ launch.pc = "listing"
  /\ ListingCompletes(1, outcome)
  /\ IF outcome.kind = "ok"
     THEN /\ aiModels' = calls'[1].models
          /\ StartLoop("analyzeTextForColoring", calls'[1].models)
          /\ launch' = IF calls'[1].models = <<>>
                       THEN finally(launch, "error")
                       ELSE [launch EXCEPT !.pc = "requesting"]
          /\ UNCHANGED <<lastError, outcomes, result>>
     ELSE /\ aiOp' = "analyzeTextForColoring"
          /\ aiPc' = "thrown"
          /\ thrown' = calls'[1].error
          /\ launch' = finally(launch, "error")
          /\ UNCHANGED <<aiModels, aiIdx, lastError, requests, outcomes,
                         result, targetWords>>
  /\ UNCHANGED <<engineVars, aiText, parseVars, storedKey, cleared,
                 aiDensity, patchVars, activeEffects>>

\* The model request of the run completes: the loop goes on to the next
\* model, or analyzeTextForColoring returns and the handler patches the
\* editor, or it throws and the handler reports the error.
ModelOfRunResponds(outcome) ==
  /\ launch.pc = "requesting"
  /\ LoopResponds(outcome)
  /\ IF aiPc' = "awaiting"
     THEN UNCHANGED <<patchVars, launch>>
     ELSE IF aiPc' = "thrown"
     THEN /\ launch' = finally(launch, "error")
          /\ UNCHANGED patchVars
     ELSE IF Len(result'.payload) = 0
     THEN /\ launch' = finally(launch, "noWord")
          /\ UNCHANGED patchVars
     ELSE /\ resultWords' = result'.payload
          /\ applyColorToWords(result'.payload)
          /\ launch' = finally(launch, "success")
  /\ UNCHANGED <<engineVars, aiText, aiModels, aiOp, parseVars, cacheVars,
                 targetVars, activeEffects>>

\* The page with a text in the editor; the list of an earlier call may be
\* cached.
InitLaunch ==
  /\ EngineUnused
  /\ aiText \in LaunchTexts
  /\ aiModels = <<>>
  /\ AIIdle
  /\ ParseIdle
  /\ \E cache \in {NoSource}
                  \cup {[apiKey |-> "key1", listing |-> l] :
                          l \in LaunchListings} :
       /\ cachedFrom = cache
       /\ cachedModels =
            IF cache = NoSource THEN NoCache
            ELSE Cached(sortModelsByQuality(validModels(cache.listing)))
       /\ firstListing = cachedModels
  /\ storedKey \in {Null, "key1"}
  /\ calls = [c \in Calls |-> IdleCall]
  /\ cleared = FALSE
  /\ TargetIdle
  /\ editorHtml = EditorTokens(CharTokens(aiText), <<>>)
  /\ resultWords = <<>>
  /\ sortedWords = <<>>
  /\ patchOp = "none"
  /\ UIIdle

NextLaunch ==
  \/ \E apiKey \in {"", "key1"}, emojiDensity \in {0, 20} :
       HandleAIColoring(apiKey, emojiDensity)
  \/ \E outcome \in LaunchOutcomes : ListingOfRunResponds(outcome)
  \/ \E outcome \in Outcomes : ModelOfRunResponds(outcome)

SpecLaunch == InitLaunch /\ [][NextLaunch]_vars

\* The launch specification with a transport that answers every request:
\* fetch resolves or rejects each of its promises, and the continuation of
\* the handler then runs.
SpecLaunchFair ==
  /\ SpecLaunch
  /\ WF_vars(\E outcome \in LaunchOutcomes : ListingOfRunResponds(outcome))
  /\ WF_vars(\E outcome \in Outcomes : ModelOfRunResponds(outcome))

\* ------------------------------------------------------ engine properties
EngineOps == {"combineEffects", "legacyCombineEffects"}
ColoringOps == EngineOps \cup {"colorApply"}

\* The number of parts the last operation emitted before the first
\* character: the prefix decoration, or the empty prefix of the legacy engine.
Lead ==
  IF op \in {"legacyCombineEffects", "colorApply"}
     \/ (op = "combineEffects" /\ selectedEffects.color # Null)
  THEN 1 ELSE 0

\* The part emitted for the character at position i of the text.
CharPart(i) == html[Lead + i]

\* The non-space index of position i.
Rank(t, i) == Cardinality({j \in 1..(i - 1) : t[j] # " "})

NonSpacePositions(t) == {i \in 1..Len(t) : t[i] # " "}
FirstNonSpace(t) == CHOOSE i \in NonSpacePositions(t) :
                      \A j \in NonSpacePositions(t) : i <= j
LastNonSpace(t) == CHOOSE i \in NonSpacePositions(t) :
                     \A j \in NonSpacePositions(t) : i >= j

\* C1: combineEffects(t, {color: c}) emits, between the two decoration spans,
\* one part per character of t in the order of t: a bare space for a space,
\* and for any other character one unmarked span with a color that holds
\* exactly that character.
C1_SpanPerCharacter ==
  (op \in EngineOps) =>
    /\ Len(html) = Len(text) + 2
    /\ html[1].kind = "span" /\ html[1].marker
    /\ html[Len(html)].kind = "span" /\ html[Len(html)].marker
    /\ \A i \in 1..Len(text) :
         IF text[i] = " "
         THEN html[i + 1].kind = "text" /\ html[i + 1].content = <<" ">>
         ELSE /\ html[i + 1].kind = "span"
              /\ ~html[i + 1].marker
              /\ html[i + 1].color # Null
              /\ html[i + 1].content = <<text[i]>>

C1_Witness ==
  /\ op = "combineEffects"
  /\ \E i, j, k \in 1..Len(text) :
       i < j /\ j < k /\ text[i] = "sparkles" /\ text[j] = " " /\ text[k] = "a"

\* C2 (as claimed): in every operation that colors text, the k-th non-space
\* character has the color colors[k mod colors.length], and under rainbow
\* the k-th and the (k+7)-th non-space characters have the same color.
C2_ColorByNonSpaceIndex ==
  (op \in ColoringOps) =>
    LET colors == EFFECT_CONFIGS.color[selectedEffects.color].colors
    IN  /\ \A i \in NonSpacePositions(text) :
             CharPart(i).color = colors[(Rank(text, i) % Len(colors)) + 1]
        /\ selectedEffects.color = "rainbow" =>
             \A i, j \in NonSpacePositions(text) :
               Rank(text, j) = Rank(text, i) + 7 =>
                 CharPart(i).color = CharPart(j).color

\* C2, for the two engines only: the same statement holds of combineEffects.
C2_EnginesColorByNonSpaceIndex ==
  (op \in EngineOps) => C2_ColorByNonSpaceIndex

C2_EnginesWitness ==
  /\ op = "combineEffects"
  /\ selectedEffects.color = "rainbow"
  /\ \E i, j \in NonSpacePositions(text) :
       /\ Rank(text, j) = Rank(text, i) + 7

\* C3: every font size a size effect emits, for an intensity in 1..10 and a
\* base size in 8..100, is a number (not NaN) that is at least 8, and every
\* non-space character gets one.
C3_SizeAtLeast8 ==
  (op # "none") =>
    /\ \A k \in 1..Len(html) :
         html[k].hasSize => ~html[k].size.nan /\ html[k].size.px >= 8
    /\ \A i \in NonSpacePositions(text) : CharPart(i).hasSize

\* The floor decides: the rounded wave size is below 8 and 8 is emitted.
C3_Witness ==
  /\ op = "combineEffects"
  /\ selectedEffects.size = "wave"
  /\ \E i \in NonSpacePositions(text) :
       LET off == getOffset("wave", Rank(text, i), NonSpaceCount(text),
                            OffsetOptions(options))
       IN  /\ MathRound(options.baseSize.val * off.den + off.num, off.den) < 8
           /\ CharPart(i).size = Px(8)

\* C4 (as claimed): whatever options the caller passes, the intensity a size
\* computation uses is an integer in 1..10 and the baseSize is defined.
C4_SizeArgsDefaulted ==
  \A a \in sizeArgs :
    /\ a.intensity.def
    /\ a.intensity.val \in 1..10
    /\ a.baseSize.def

\* C5: with rise and at least two non-space characters, the size of the
\* first non-space character is at most the size of the last one.
C5_RiseFirstAtMostLast ==
  (op # "none" /\ selectedEffects.size = "rise" /\ NonSpaceCount(text) >= 2) =>
    LET first == CharPart(FirstNonSpace(text))
        last == CharPart(LastNonSpace(text))
    IN  /\ first.hasSize /\ last.hasSize
        /\ ~first.size.nan /\ ~last.size.nan
        /\ first.size.px <= last.size.px

C5_Witness ==
  /\ op = "combineEffects"
  /\ selectedEffects.size = "rise"
  /\ NonSpaceCount(text) >= 2
  /\ \E i \in 1..Len(text) : text[i] = " "
  /\ CharPart(FirstNonSpace(text)).size.px < CharPart(LastNonSpace(text)).size.px

\* C6: removing the spans that carry the decoration marker from
\* combineEffects(t, {color: "rainbow"}) and concatenating the characters
\* that remain gives t back.
C6_StripRoundTrip ==
  (op \in EngineOps /\ selectedEffects.color = "rainbow") =>
    getCleanSelectedText(html) = text

C6_Witness ==
  /\ op = "combineEffects"
  /\ selectedEffects.color = "rainbow"
  /\ \E i, j, k \in 1..Len(text) :
       text[i] = "sparkles" /\ text[j] = " " /\ text[k] = "a"
  /\ getCleanSelectedText(html) # <<>>

\* C7 (as claimed): whenever a color effect with decorations is applied, the
\* prefix is the first part and the suffix the last, each a span with the
\* marker; no other part carries the marker, and no decoration glyph is
\* bare text.
C7_DecorationsMarkedOnce ==
  (op \in ColoringOps) =>
    LET decoration == EFFECT_CONFIGS.color[selectedEffects.color].decoration
    IN  /\ Len(html) >= 2
        /\ html[1] = DecorationSpan(decoration.before)
        /\ html[Len(html)] = DecorationSpan(decoration.after)
        /\ \A k \in 2..(Len(html) - 1) : ~html[k].marker
        /\ \A k \in 1..Len(html) :
             html[k].kind = "text" => html[k].content = <<" ">>

\* C7, for the two engines only.
C7_EnginesDecorationsMarkedOnce ==
  (op \in EngineOps) => C7_DecorationsMarkedOnce

\* ----------------------------------------------------- adapter properties
\* word occurs in t, character by character.
Occurs(word, t) ==
  \E i \in 1..(Len(t) - Len(word) + 1) :
    \A k \in 1..Len(word) : t[i + k - 1] = word[k]

\* The first "[" of the response and the first "]" after it (0 when none).
FirstOpen ==
  IF \E i \in 1..Len(response) : response[i] = LB
  THEN CHOOSE i \in 1..Len(response) :
         response[i] = LB /\ \A j \in 1..(i - 1) : response[j] # LB
  ELSE 0
FirstClose ==
  IF FirstOpen > 0 /\ \E i \in (FirstOpen + 1)..Len(response) : response[i] = RB
  THEN CHOOSE i \in (FirstOpen + 1)..Len(response) :
         response[i] = RB /\ \A j \in (FirstOpen + 1)..(i - 1) : response[j] # RB
  ELSE 0

\* The tokens between the two brackets form a JSON array: nothing, or values
\* at the odd places and commas at the even ones, ending with a value.
ArrayLength == FirstClose - FirstOpen - 1
IsArray ==
  /\ FirstOpen > 0 /\ FirstClose > 0
  /\ (ArrayLength = 0 \/ ArrayLength % 2 = 1)
  /\ \A k \in 1..ArrayLength :
       IF k % 2 = 1 THEN response[FirstOpen + k].k \in {"str", "word"}
       ELSE response[FirstOpen + k] = COMMA
ArrayEntries ==
  [n \in 1..((ArrayLength + 1) \div 2) |-> response[FirstOpen + 2 * n - 1]]

VerifiedEntry(tok) == tok.k = "str" /\ Occurs(tok.v, aiText)

QuotaFailure(outcome) ==
  outcome.kind = "http"
  /\ (outcome.status = "429" \/ outcome.serverMessage = "quota")

\* A call failed, and not for quota.
OtherFailure(outcome) == outcome.kind # "ok" /\ ~QuotaFailure(outcome)

\* A call succeeded: a 2xx response with a usable result.
Succeeded(outcome) ==
  outcome.kind = "ok" /\ Payload(aiOp, outcome.body) # <<>>

\* C9: after a quota failure of the model of rank j the model of rank j+1 is
\* requested, and a returned result names the first model in rank order
\* whose call succeeded, every model before it having been tried.
C9_FallbackToFirstSuccess ==
  /\ \A j \in 1..Len(outcomes) :
       (QuotaFailure(outcomes[j]) /\ j < Len(aiModels)) =>
         (Len(requests) > j /\ requests[j + 1] = aiModels[j + 1])
  /\ aiPc = "returned" =>
       \E k \in 1..Len(aiModels) :
         /\ result.model = aiModels[k]
         /\ Len(outcomes) = k
         /\ Succeeded(outcomes[k])
         /\ \A j \in 1..(k - 1) : ~Succeeded(outcomes[j])
         /\ requests = SubSeq(aiModels, 1, k)

\* Two quota errors, then a success: the result names the third model.
C9_Witness ==
  /\ aiPc = "returned"
  /\ Len(outcomes) = 3
  /\ QuotaFailure(outcomes[1])
  /\ QuotaFailure(outcomes[2])
  /\ result.model = aiModels[3]

C11_OneRequestInFlight ==
  /\ Len(requests) = Len(outcomes) + (IF aiPc = "awaiting" THEN 1 ELSE 0)
  /\ Len(requests) <= Len(aiModels)
  /\ \A k \in 1..Len(requests) : requests[k] = aiModels[k]
  /\ \A j, k \in 1..Len(requests) : requests[j] = requests[k] => j = k

\* Two requests have completed and the third one is in flight.
C11_Witness ==
  /\ aiPc = "awaiting"
  /\ Len(outcomes) = 2
  /\ requests = <<aiModels[1], aiModels[2], aiModels[3]>>

\* A 2xx response with no usable result: no validated word for
\* analyzeTextForColoring, no emoji for getEmojiForText.
NoUsableResult(outcome) ==
  /\ outcome.kind = "ok"
  /\ IF aiOp = "analyzeTextForColoring"
     THEN parseWordsFromResponse(outcome.body, aiText) = <<>>
     ELSE IndexOfKind(outcome.body, "emoji", 1) = 0

\* C12: a response of the model of rank j with no usable result is not
\* returned: the operation has not returned with that model, and the model
\* of rank j+1, when there is one, has been requested.
C12_UnusableResponseFallsBack ==
  \A j \in 1..Len(outcomes) :
    NoUsableResult(outcomes[j]) =>
      /\ ~(aiPc = "returned" /\ Len(outcomes) = j)
      /\ aiPc = "returned" => result.model # aiModels[j]
      /\ j < Len(aiModels) =>
           (Len(requests) > j /\ requests[j + 1] = aiModels[j + 1])

\* getEmojiForText: the first model answers with no emoji, the second one
\* with an emoji, and the result names the second model.
C12_Witness ==
  /\ aiOp = "getEmojiForText"
  /\ aiPc = "returned"
  /\ outcomes = <<OkResponse(<<LB, Str(<<"a">>), RB>>), OkResponse(<<EMOJI>>)>>
  /\ result = [model |-> aiModels[2], payload |-> <<EMOJI>>]

\* Every ranked model has been attempted and none gave a usable result.
Exhausted ==
  /\ Len(aiModels) > 0
  /\ Len(outcomes) = Len(aiModels)
  /\ \A j \in 1..Len(outcomes) :
       outcomes[j].kind # "ok" \/ NoUsableResult(outcomes[j])

\* The attempts that raised an error.
FailedAttempts == {j \in 1..Len(outcomes) : outcomes[j].kind # "ok"}

\* C13: when every ranked model has been attempted with no usable result
\* the operation has thrown and returned nothing; the error is the one of
\* the last attempt that raised an error, or "All models failed" when no
\* attempt raised one.
C13_ExhaustedFailsWithLastError ==
  Exhausted =>
    /\ aiPc = "thrown"
    /\ result = NoResult
    /\ thrown =
         IF FailedAttempts = {} THEN Error(<<"All models failed">>)
         ELSE LET last == CHOOSE j \in FailedAttempts :
                            \A k \in FailedAttempts : k <= j
              IN  callGeminiAPI(outcomes[last]).error

\* The first of three models answers 429 and the two others answer with no
\* usable result: the quota error of the first attempt is thrown.
C13_Witness ==
  /\ Exhausted
  /\ outcomes = <<HttpError("429", ""), OkResponse(<<>>), OkResponse(<<>>)>>
  /\ thrown = Error(<<"API error ", "429", ": ", "Unknown">>)

\* No attempt raised an error: the generic error is thrown.
C13_GenericWitness ==
  /\ Exhausted
  /\ FailedAttempts = {}
  /\ Len(outcomes) = 2
  /\ thrown = Error(<<"All models failed">>)

\* C14: a call that started with a list in the cache has returned that list
\* and sent no listing request; from the first listing that succeeded after
\* the last clearCache on, the cache holds the list of that listing; and
\* the first call started after a clearCache has sent a listing request.
C14_CachedUntilCleared ==
  /\ \A c \in Calls :
       (calls[c].pc # "idle" /\ calls[c].atStart.set) =>
         /\ calls[c].pc = "returned"
         /\ calls[c].models = calls[c].atStart.list
         /\ ~calls[c].requested
  /\ firstListing.set => cachedModels = firstListing
  /\ \A c \in Calls :
       (calls[c].pc # "idle" /\ calls[c].afterClear) => calls[c].requested

\* A call was served from the cache after an earlier listing succeeded.
C14_SerialWitness ==
  \E c \in Calls :
    /\ calls[c].pc = "returned"
    /\ ~calls[c].requested
    /\ calls[c].models = <<<<"gemini", "-", "2.5", "-pro">>>>

\* C15: a call of fetchAvailableModels made by handleAIColoring has
\* returned a list that was fetched with the key of that call.
C15_ListFetchedWithLaunchKey ==
  \A c \in Calls :
    (calls[c].pc = "returned" /\ calls[c].caller = "handleAIColoring") =>
      calls[c].from.apiKey = calls[c].apiKey

\* What a name says of its model: the number of its version generation
\* (times ten), its tier and whether it is experimental or a preview.
GenerationOf(name) ==
  IF \E k \in 1..Len(name) : name[k] = "3.0" THEN 30
  ELSE IF \E k \in 1..Len(name) : name[k] = "2.5" THEN 25
  ELSE IF \E k \in 1..Len(name) : name[k] = "2.0" THEN 20
  ELSE IF \E k \in 1..Len(name) : name[k] = "1.5" THEN 15
  ELSE 10
TierOf(name) ==
  IF \E k \in 1..Len(name) : name[k] = "-pro" THEN 2
  ELSE IF \E k \in 1..Len(name) : name[k] \in {"-flash", "-lite"} THEN 1
  ELSE 0
IsPreview(name) ==
  \E k \in 1..Len(name) : name[k] \in {"exp", "preview"}

\* The lists the calls of fetchAvailableModels have returned.
ReturnedLists == {calls[c].models : c \in {d \in Calls : calls[d].pc = "returned"}}

\* C16: in a returned list, of two models of the same tier and the same
\* preview status the one of the higher generation comes first.
C16_HigherGenerationFirst ==
  \A list \in ReturnedLists :
    \A i, j \in 1..Len(list) :
      (/\ TierOf(list[i]) = TierOf(list[j])
       /\ IsPreview(list[i]) = IsPreview(list[j])
       /\ GenerationOf(list[i]) > GenerationOf(list[j])) => i < j

\* The same for the generations the score knows: 1.0, 1.5, 2.0 and 2.5.
C16_ScoredGenerationsInOrder ==
  \A list \in ReturnedLists :
    \A i, j \in 1..Len(list) :
      (/\ TierOf(list[i]) = TierOf(list[j])
       /\ IsPreview(list[i]) = IsPreview(list[j])
       /\ GenerationOf(list[i]) > GenerationOf(list[j])
       /\ GenerationOf(list[i]) <= 25) => i < j

\* C17: in a returned list, of two models of the same generation the one of
\* the higher tier (pro, then flash or lite, then unclassified) comes
\* first, and of two models of the same generation and tier the stable one
\* comes before the experimental or preview one.
C17_TierThenStableFirst ==
  \A list \in ReturnedLists :
    \A i, j \in 1..Len(list) :
      GenerationOf(list[i]) = GenerationOf(list[j]) =>
        /\ TierOf(list[i]) > TierOf(list[j]) => i < j
        /\ (/\ TierOf(list[i]) = TierOf(list[j])
            /\ ~IsPreview(list[i])
            /\ IsPreview(list[j])) => i < j

\* The listing gave the 2.5 flash preview before the 2.5 pro preview: the
\* list has them the other way round.
C17_Witness ==
  \E c \in Calls :
    /\ calls[c].pc = "returned"
    /\ calls[c].from.listing =
         <<ModelEntry(ModelName("2.5", <<"-flash">>, <<>>),
                      Methods({"generateContent"})),
           ModelEntry(ModelName("2.5", <<"-pro">>, <<"-", "preview">>),
                      Methods({"generateContent"}))>>
    /\ calls[c].models = <<<<"gemini", "-", "2.5", "-pro", "-", "preview">>,
                           <<"gemini", "-", "2.5", "-flash">>>>

\* A model of the remote listing is eligible: it supports generateContent
\* and its lower-cased name has none of the excluded patterns.
LowerCased(piece) == IF piece = "TTS" THEN "tts" ELSE piece
Eligible(m) ==
  /\ m.supportedGenerationMethods.def
  /\ "generateContent" \in m.supportedGenerationMethods.val
  /\ \A k \in 1..Len(m.name) : LowerCased(m.name[k]) \notin ExcludedPatterns

\* The name without its "models/" prefix.
Unprefixed(name) == IF name # <<>> /\ name[1] = "models/" THEN Tail(name) ELSE name

\* The number of times a name is in a list.
Count(list, name) == Cardinality({k \in 1..Len(list) : list[k] = name})

\* C18: a returned list is a permutation of the names, without prefix, of
\* the eligible models of the listing it came from.
C18_PermutationOfEligible ==
  \A c \in Calls :
    calls[c].pc = "returned" =>
      LET listing == calls[c].from.listing
          eligible == SelectSeq(listing, Eligible)
          names == [k \in 1..Len(eligible) |-> Unprefixed(eligible[k].name)]
          list == calls[c].models
      IN  /\ Len(list) = Len(names)
          /\ \A k \in 1..Len(names) :
               Count(list, names[k]) = Count(names, names[k])

\* The listing holds a TTS model named in capitals and an eligible model:
\* the list is the eligible model alone, its prefix removed.
C18_Witness ==
  \E c \in Calls :
    /\ calls[c].pc = "returned"
    /\ calls[c].from.listing =
         <<ModelEntry(ModelName("2.5", <<"-flash">>, <<"-", "TTS">>),
                      Methods({"generateContent"})),
           ModelEntry(ModelName("1.5", <<"-pro">>, <<>>),
                      Methods({"generateContent"}))>>
    /\ calls[c].models = <<<<"gemini", "-", "1.5", "-pro">>>>

\* The number of the words of a text: the positions where a character that
\* is no whitespace starts the text or follows whitespace.
WordStarts(chars) ==
  {k \in 1..Len(chars) :
     /\ chars[k] \notin {" ", "\n", "\t"}
     /\ (k = 1 \/ chars[k - 1] \in {" ", "\n", "\t"})}

\* C19: the target word count of analyzeTextForColoring is the number of
\* words times density / 100, rounded to the nearest integer (a half goes
\* up), and 1 when that is less than 1.
C19_TargetIsRoundedShare ==
  targetWords.def =>
    LET share == Cardinality(WordStarts(aiText)) * aiDensity
        rounded == (share + 50) \div 100
    IN  targetWords.val = IF rounded >= 1 THEN rounded ELSE 1

\* The target word count is at least 1, and at most one below the rounded
\* share.
C19_AtLeastOne ==
  targetWords.def =>
    /\ targetWords.val >= 1
    /\ LET rounded == (Cardinality(WordStarts(aiText)) * aiDensity + 50) \div 100
       IN  targetWords.val \in {rounded - 1, rounded} \cup {1}

\* Density 0 on a text of three words, and the empty text: the target is 1.
C19_FloorWitness ==
  /\ targetWords = Num(1)
  /\ aiDensity = 0
  /\ Cardinality(WordStarts(aiText)) = 3

\* The number of elements open before position k of the markup.
DepthBefore(tokens, k) ==
  Cardinality({m \in 1..(k - 1) : tokens[m].t = "open"})
    - Cardinality({m \in 1..(k - 1) : tokens[m].t = "close"})

\* The patches that lie within another patch, as pairs <<word of the outer
\* patch, word of the inner patch>>: the outer element opens at j and is
\* still open where the inner one opens at k.
NestedPatches(tokens) ==
  LET opens == {k \in 1..Len(tokens) : tokens[k].t = "open"}
      depth == [k \in 1..Len(tokens) |-> DepthBefore(tokens, k)]
  IN  {<<tokens[pair[1]].by, tokens[pair[2]].by>> :
         pair \in {p \in opens \X opens :
                     /\ p[1] < p[2]
                     /\ \A m \in (p[1] + 1)..p[2] : depth[m] > depth[p[1]]}}

\* short is a substring of long, and shorter.
ShorterSubstring(short, long) ==
  /\ Len(short) < Len(long)
  /\ \E off \in 0..(Len(long) - Len(short)) :
       SubSeq(long, off + 1, off + Len(short)) = short

\* C20: applyColorToWords has processed the words longest first, and no
\* patch of a word lies within the patch of a longer selected word it is a
\* substring of.
C20_LongestFirstNeverInside ==
  patchOp = "applyColorToWords" =>
    /\ \A i, j \in 1..Len(sortedWords) :
         i < j => Len(sortedWords[i]) >= Len(sortedWords[j])
    /\ \A pair \in NestedPatches(editorHtml) :
         ~ShorterSubstring(pair[2], pair[1])

\* The styled characters a word's patches wrote.
StyledBy(word) ==
  {k \in 1..Len(editorHtml) :
     /\ editorHtml[k].t = "open"
     /\ ~editorHtml[k].marker
     /\ editorHtml[k].by = word}

\* The example of the claim: "category" is processed before "cat", its
\* eight characters are styled by its own patch and by no other, and "cat"
\* styles the three characters of the last word.
C20_Example ==
  (/\ patchOp = "applyColorToWords"
   /\ aiText = ExampleText
   /\ resultWords = <<<<"c", "a", "t">>,
                      <<"c", "a", "t", "e", "g", "o", "r", "y">>>>) =>
    /\ sortedWords = <<<<"c", "a", "t", "e", "g", "o", "r", "y">>,
                       <<"c", "a", "t">>>>
    /\ Cardinality(StyledBy(<<"c", "a", "t", "e", "g", "o", "r", "y">>)) = 8
    /\ Cardinality(StyledBy(<<"c", "a", "t">>)) = 3
    /\ NestedPatches(editorHtml) = {}

C20_ExampleWitness ==
  /\ patchOp = "applyColorToWords"
  /\ aiText = ExampleText
  /\ resultWords = <<<<"c", "a", "t">>,
                     <<"c", "a", "t", "e", "g", "o", "r", "y">>>>

\* A shorter word of two characters or more never patches the inside of a
\* longer word's patch.
C20_OnlySingleCharactersInside ==
  \A pair \in NestedPatches(editorHtml) : Len(pair[2]) = 1

\* The positions where word stands in chars as a whole word: between
\* spaces or the ends of the text.
WholeWordAt(chars, word) ==
  {i \in 1..(Len(chars) - Len(word) + 1) :
     /\ SubSeq(chars, i, i + Len(word) - 1) = word
     /\ (i = 1 \/ chars[i - 1] = " ")
     /\ (i + Len(word) > Len(chars) \/ chars[i + Len(word)] = " ")}

\* The number of characters of word that a patch wraps in an element.
StyledPerPatch(word) ==
  Cardinality({k \in 1..Len(word) : word[k] # " "})

\* C21: when one word is selected and it occurs twice or more in the text,
\* applyColorToWords replaces exactly one occurrence: the markup holds the
\* styled characters of one patch of the word.
C21_OnlyFirstOccurrence ==
  (/\ patchOp = "applyColorToWords"
   /\ Len(resultWords) = 1
   /\ Cardinality(WholeWordAt(aiText, resultWords[1])) >= 2) =>
    Cardinality(StyledBy(resultWords[1])) = StyledPerPatch(resultWords[1])

\* When one word is selected, applyColorToWords replaces every occurrence
\* of it as a whole word.
C21_EveryOccurrencePatched ==
  (patchOp = "applyColorToWords" /\ Len(resultWords) = 1) =>
    Cardinality(StyledBy(resultWords[1]))
      = Cardinality(WholeWordAt(aiText, resultWords[1]))
          * StyledPerPatch(resultWords[1])

\* One selected word that occurs twice has been patched.
C21_TwiceWitness ==
  /\ patchOp = "applyColorToWords"
  /\ Len(resultWords) = 1
  /\ Cardinality(WholeWordAt(aiText, resultWords[1])) = 2

\* C22: after applyColorToWords every tag of the markup is whole: no
\* replacement was made inside the text of a tag.
C22_NothingReplacedInsideTags ==
  patchOp = "applyColorToWords" =>
    \A k \in 1..Len(editorHtml) : editorHtml[k].t # "broken"

\* The selected words that the text of a tag of the engine's markup holds.
SelectedTagWords ==
  {resultWords[i] : i \in 1..Len(resultWords)}
    \cap {<<"d", "a", "t", "a">>,
          <<"d", "e", "c", "o", "r", "a", "t", "i", "o", "n">>,
          <<"t", "r", "u", "e">>, <<"s", "t", "y", "l", "e">>,
          <<"c", "o", "l", "o", "r">>, <<"f", "o", "n", "t">>,
          <<"s", "i", "z", "e">>}

\* A tag is cut only by a selected word that is one of the names or values
\* the tags of the markup hold.
C22_OnlyTagWordsCut ==
  (patchOp = "applyColorToWords" /\ SelectedTagWords = {}) =>
    \A k \in 1..Len(editorHtml) : editorHtml[k].t # "broken"

\* Words that are not in the tags have been patched over markup that an
\* earlier word of the same run inserted.
C22_SecondPassWitness ==
  /\ patchOp = "applyColorToWords"
  /\ SelectedTagWords = {}
  /\ Len(sortedWords) = 2
  /\ StyledBy(sortedWords[1]) # {}
  /\ StyledBy(sortedWords[2]) # {}

\* C23: combineEffects on the empty text or on a text of spaces only
\* returns the text as it is, with no element added.
C23_EmptyTextUnstyled ==
  (op = "combineEffects" /\ \A k \in 1..Len(text) : text[k] = " ") =>
    Serialize(html) = CharTokens(text)

\* On such a text combineEffects styles no character: what it adds is the
\* two decorations of the color effect.
C23_EmptyTextOnlyDecorated ==
  (op = "combineEffects" /\ \A k \in 1..Len(text) : text[k] = " ") =>
    \A k \in 1..Len(html) : html[k].kind = "span" => html[k].marker

\* An adapter operation on the empty text or on whitespace only, with models
\* to ask and every request answered 200, has not thrown.
C23_EmptyTextNeverRaises ==
  (/\ aiText \in EmptyTexts
   /\ aiModels # <<>>
   /\ \A j \in 1..Len(outcomes) : outcomes[j].kind = "ok") =>
    aiPc # "thrown"

\* A 200 response whose array holds a word that does not occur in the text
\* "ba": ["z"], or ["z", "a"].
Unverifiable(outcome) ==
  /\ outcome.kind = "ok"
  /\ \E k \in 1..Len(outcome.body) : outcome.body[k] = Str(<<"z">>)

\* C24: analyzeTextForColoring has not thrown when every request was
\* answered 200 with an array of words, some of which do not occur in the
\* text.
C24_UnverifiableNeverRaises ==
  (/\ aiOp = "analyzeTextForColoring"
   /\ aiText = FallbackText
   /\ aiModels # <<>>
   /\ \A j \in 1..Len(outcomes) : Unverifiable(outcomes[j])) =>
    aiPc # "thrown"

\* A response that holds a verified word beside an unverifiable one is
\* returned with the verified word only, and ends the operation.
C24_VerifiedWordsReturned ==
  (/\ aiOp = "analyzeTextForColoring"
   /\ aiText = FallbackText
   /\ outcomes # <<>>
   /\ outcomes[Len(outcomes)]
        = OkResponse(<<LB, Str(<<"z">>), COMMA, Str(<<"a">>), RB>>)) =>
    /\ aiPc = "returned"
    /\ result = [model |-> aiModels[Len(outcomes)], payload |-> <<<<"a">>>>]

\* ["z"] from the first model, ["z", "a"] from the second.
C24_PartialWitness ==
  /\ aiOp = "analyzeTextForColoring"
  /\ aiText = FallbackText
  /\ outcomes = <<OkResponse(<<LB, Str(<<"z">>), RB>>),
                  OkResponse(<<LB, Str(<<"z">>), COMMA, Str(<<"a">>), RB>>)>>
  /\ aiPc = "returned"

\* The slots of the active selection hold null or a key of their catalog.
ActiveSlots ==
  activeEffects \in [color : {Null} \cup ColorKeys,
                     size : {Null} \cup SizeKeys]

\* A step of applyEffect that changes the active selection changes one slot
\* and leaves the other as it was.
OneSlotReplaced ==
  (op' = "combineEffects" /\ activeEffects' # activeEffects) =>
    \/ activeEffects'.size = activeEffects.size
    \/ activeEffects'.color = activeEffects.color

\* C25: after any sequence of apply-effect, random mode and clear-all the
\* active selection holds at most one effect per category, each slot null
\* or a key of its catalog, and applying an effect replaces the slot of its
\* category only.
C25_OneEffectPerCategory == []ActiveSlots /\ [][OneSlotReplaced]_vars

\* A size effect was applied after a color effect, and both are active.
C25_Witness ==
  /\ op = "combineEffects"
  /\ activeEffects = [color |-> "flame", size |-> "rise"]
  /\ html # <<>>


\* ---- C26, C27: handleAIColoring
\* The word-selection call of the run has failed: analyzeTextForColoring
\* threw, from the listing, from the empty list or from its loop.
ColoringCallFailed == launch.pc = "done" /\ aiPc = "thrown"

\* C26: when the word-selection call of handleAIColoring has failed, the
\* markup of the editor after the handler is the markup it had when the
\* handler started.
C26_FailedCallKeepsMarkup == ColoringCallFailed => editorHtml = launch.before

\* The emoji slider was on, every model of the list answered with a quota
\* error and the handler has finished.
C26_Witness ==
  /\ ColoringCallFailed
  /\ launch.emoji = "failed"
  /\ Len(outcomes) = 2
  /\ \A k \in 1..Len(outcomes) : QuotaFailure(outcomes[k])
  /\ launch.before # <<>>

\* A request of the run is in flight: the listing or a model request.
RequestOfRunInFlight == launch.pc \in {"listing", "requesting"}

\* C27: the launch button is enabled when the handler has finished, it is
\* disabled while a request of the run is in flight, and a disabled button
\* is eventually enabled again.
C27_ButtonEnabledAgain ==
  /\ [](launch.pc = "done" => ~launch.disabled)
  /\ [](RequestOfRunInFlight =>
          /\ launch.disabled
          /\ calls[1].pc = "awaiting" \/ aiPc = "awaiting")
  /\ (launch.disabled ~> ~launch.disabled)

\* The run disabled the button, its emoji phase failed, a model request was
\* answered with an error and the handler has finished.
C27_Witness ==
  /\ launch.pc = "done"
  /\ launch.ended = "error"
  /\ launch.emoji = "failed"
  /\ requests # <<>>
  /\ ~launch.disabled


\* ---- C28: the two engines
\* C28: on the same text, selection and options (intensity in 1..10,
\* baseSize in 8..100) the markup of the refactored combineEffects and the
\* markup of the legacy combineEffects are the same sequence of tags and
\* characters: same colors, same font sizes, same decorations, same spaces,
\* same order.
C28_EnginesAgree ==
  /\ op = "combineEffects" =>
       Serialize(html)
         = Serialize(legacyCombineEffects(text, selectedEffects, options))
  /\ op = "legacyCombineEffects" =>
       Serialize(html)
         = Serialize(combineEffects(text, selectedEffects, options))

\* The refactored engine has run with a color and the fall effect on a text
\* with a space, at the largest intensity and the smallest base size, and
\* the first and the last letter have different sizes.
C28_Witness ==
  /\ op = "combineEffects"
  /\ selectedEffects = [color |-> "rainbow", size |-> "fall"]
  /\ NonSpaceCount(text) = MaxSizeLen
  /\ \E i \in 1..Len(text) : text[i] = " "
  /\ options = [intensity |-> Num(MaxIntensity), baseSize |-> Num(MinBaseSize)]
  /\ html[FirstNonSpace(text) + 1].size # html[LastNonSpace(text) + 1].size
====
